---- MODULE Spec2Model ----
(***************************************************************************)
(* Model of the multi-agent value-decomposition learning loop of           *)
(* traffic-marl-vdn: the centralized replay buffer, the VDN mixer, the     *)
(* coordinator's training step with its epsilon decay and target sync,     *)
(* the per-agent ZeroMQ mailbox and the enhanced-observation builder.      *)
(*                                                                         *)
(* Specifications:                                                         *)
(*   Spec      training side: remember / train_step / episode end          *)
(*   SpecComm  one agent's AgentCommunication: receive loop, drains and    *)
(*             get_enhanced_state callers                                  *)
(*   SpecMixer VDNMixer.forward applied to bounded input tensors           *)
(*   SpecLoad  save_models / load_models against a models directory         *)
(*   SpecCoord decision cycles of act and act_with_coordination             *)
(*   SpecLoss  the same cycles when no published message is delivered       *)
(*   SpecSample CentralizedBuffer.add and CentralizedBuffer.sample           *)
(*   SpecTarget the target computation of train_step on bounded batches      *)
(*   SpecRun   the loops of Trainer.train and MARLExecutor.run_single_episode *)
(*   SpecAct   DQNAgent.act on bounded parameters and observations           *)
(***************************************************************************)
EXTENDS Integers, Sequences, FiniteSets, TLC

(* ------------------------------ bounds --------------------------------- *)
MaxCapacity == 2
MaxAdds == 3
MaxBatch == 2
MaxFreq == 2
MaxEpisodes == 2
MaxCalls == 2
MaxMsgs == 2
NumCallers == 2
MaxInFlight == 2
MaxCycles == 2
MaxSample == 3
MaxParam == 2
MaxRunEpisodes == 3
MaxSteps == 2
MaxTimeouts == 1

(* --------------------------- program constants -------------------------- *)
\* agents/multi_agent_system.py:45-48, the two intersections of neighbor_map
AgentIds == <<"J1_center", "J2_center">>
NumAgents == Len(AgentIds)
Agents == 1..NumAgents
\* main.py:44, action_dim passed by the Trainer
ActionDim == 4
\* epsilon, epsilon_min and epsilon_decay are held in thousandths
Scale == 1000
\* agents/multi_agent_system.py:269-273, the neighbor block of an enhanced state
NeighborFeatureDim == 10
\* agents/multi_agent_system.py:319, state[:4] is the queue summary
QueueDim == 4

VARIABLES
    capacity,           \* CentralizedBuffer.capacity
    buffer,             \* CentralizedBuffer.buffer, oldest first
    added,              \* history: every experience passed to add, in order
    batch_size,         \* config['agent_config']['batch_size']
    target_update_freq, \* MultiAgentSystem.target_update_freq
    training_step,      \* MultiAgentSystem.training_step
    epsilon,            \* agent.epsilon, per agent
    epsilon_start,      \* config epsilon_start
    epsilon_min,        \* agent.epsilon_min
    epsilon_decay,      \* agent.epsilon_decay
    q_params,           \* agent.q_network parameters, per agent (a version number)
    target_params,      \* agent.target_network parameters, per agent
    last_call,          \* outcome of the last train_step call
    calls,              \* history: train_step calls made
    data_calls,         \* history: train_step calls made with len(buffer) >= batch_size
    trained_calls,      \* history: train_step calls that reached the optimizer step
    episodes            \* history: completed train_episode calls

VARIABLES
    sub_queue,          \* messages delivered to the SUB socket, not yet received
    published,          \* number of messages published so far (the next timestamp)
    received_messages,  \* AgentCommunication.received_messages, in dict order
    lock,               \* AgentCommunication.lock: Free or the holding thread
    rx_pc,              \* position of the _receive_loop thread
    rx_msg,             \* the message the receive loop has just received
    c_pc,               \* position of each calling thread
    c_op,               \* the operation each calling thread is in
    c_base,             \* base_state argument of get_enhanced_state
    c_local,            \* each caller's local `messages`
    c_result,           \* each caller's last returned value
    c_arrived,          \* history: what had arrived when the caller cleared
    stored,             \* history: timestamps written to the mailbox
    returned,           \* history: per timestamp, how many drains returned it
    overwritten,        \* history: timestamps replaced by a newer message
    since_clear         \* history: per sender, messages stored since the last clear

commVars == <<sub_queue, published, received_messages, lock, rx_pc, rx_msg,
              c_pc, c_op, c_base, c_local, c_result, c_arrived, stored,
              returned, overwritten, since_clear>>

VARIABLES
    mixer_in,           \* the tensor handed to VDNMixer.forward
    mixer_out,          \* what forward returned or raised
    mixer_built         \* outcome of MultiAgentSystem.__init__'s VDNMixer(...) call

mixVars == <<mixer_in, mixer_out, mixer_built>>

trainVars == <<capacity, buffer, added, batch_size, target_update_freq,
               training_step, epsilon, epsilon_start, epsilon_min, epsilon_decay,
               q_params, target_params, last_call, calls, data_calls,
               trained_calls, episodes>>

(* ------------------------------ helpers -------------------------------- *)
RECURSIVE SumSeq(_)
SumSeq(s) == IF s = << >> THEN 0 ELSE Head(s) + SumSeq(Tail(s))

Max(a, b) == IF a >= b THEN a ELSE b

\* A joint transition (states, joint_actions, reward, next_states, done);
\* observations are abstracted to one small integer per agent.
Experiences ==
    { [states |-> <<0, 0>>, actions |-> <<0, 0>>, reward |-> -1,
       next_states |-> <<0, 0>>, done |-> FALSE],
      [states |-> <<1, 0>>, actions |-> <<1, 3>>, reward |-> -2,
       next_states |-> <<0, 1>>, done |-> TRUE] }

(* ------------------- CentralizedBuffer (agents/vdn_mixer.py) ------------ *)
\* Mutant of BufferAdd: at capacity the newest entry is dropped instead.
BufferAddEvictNewest(buf, cap, experience) ==
    LET kept == IF Len(buf) >= cap THEN SubSeq(buf, 1, Len(buf) - 1) ELSE buf
    IN  Append(kept, experience)

\* add: at capacity the oldest entry is popped from the front, then the
\* experience is appended.
BufferAdd(buf, cap, experience) ==
    LET kept == IF Len(buf) >= cap THEN Tail(buf) ELSE buf
    IN  Append(kept, experience)

\* __len__
BufferLen(buf) == Len(buf)

\* Mutant of SampleIndices: positions drawn with replacement.
SampleIndicesWithReplacement(n, k) == [1..k -> 1..n]

\* np.random.choice(len(buffer), batch_size, replace=False): every sequence
\* of batch_size pairwise distinct positions.
SampleIndices(n, k) ==
    { idx \in [1..k -> 1..n] : \A i, j \in 1..k : i # j => idx[i] # idx[j] }

(* ------------------------ VDNMixer (agents/vdn_mixer.py) ---------------- *)
\* A tensor is [rank, v]: v is a sequence nested rank deep.
Tensor(r, val) == [rank |-> r, v |-> val]

MixerOk(t) == [raised |-> "none", out |-> t]
MixerRaise(e) == [raised |-> e, out |-> Tensor(0, << >>)]

\* forward: reads agent_qs.shape[0] and agent_qs.shape[2], so an input of
\* rank below 3 raises IndexError; with num_agents = 2 (the mixer is built with
\* len(agent_ids)) the result is the table Q1(a1) + Q2(a2) per batch row.
VDNMixerForward(agent_qs) ==
    IF agent_qs.rank < 3
    THEN MixerRaise("IndexError")
    ELSE LET batch == Len(agent_qs.v)
             action_dim == Len(agent_qs.v[1][1])
         IN  MixerOk(Tensor(3,
                 [b \in 1..batch |->
                     [a1 \in 1..action_dim |->
                         [a2 \in 1..action_dim |->
                             agent_qs.v[b][1][a1] + agent_qs.v[b][2][a2]]]]))

\* VDNMixer.__init__(self, num_agents, state_dim, config) called with nargs
\* positional arguments.
VDNMixerInit(nargs) == IF nargs = 3 THEN "ok" ELSE "TypeError"

\* MultiAgentSystem.__init__ builds the mixer as VDNMixer(self.num_agents).
MixerConstruction == VDNMixerInit(1)

(* ------------------------- DQNAgent (agents/dqn_agent.py) --------------- *)
\* The network's action values for an observation: a fixed function of the
\* parameters (a version number) and the observation.
QNetwork(params, obs) ==
    [a \in 1..ActionDim |-> ((params + obs + a) % 3) - 1]

MaxOf(s) == CHOOSE m \in { s[i] : i \in DOMAIN s } : \A i \in DOMAIN s : s[i] <= m

\* gamma = config.get('gamma', 0.99), in thousandths
Gamma == 990

\* Mutant of DecayEpsilon: the floor is left out.
DecayEpsilonNoFloor(eps, emin, decay) == (eps * decay) \div Scale

\* epsilon = max(epsilon_min, epsilon * epsilon_decay)
DecayEpsilon(eps, emin, decay) == Max(emin, (eps * decay) \div Scale)

(* ------------- MultiAgentSystem.train_step (multi_agent_system.py) ------ *)
NoCall == [kind |-> "none", loss |-> 0, norm |-> 0, error |-> "none"]

\* Lines 169-181: each agent's online value of its taken action, stacked to
\* [batch, num_agents].
SelectedQs(batch) ==
    Tensor(2, [b \in 1..Len(batch) |->
                 [i \in Agents |->
                     QNetwork(q_params[i], batch[b].states[i])[batch[b].actions[i] + 1]]])

\* Lines 184-194: each agent's maximal target value on the next observation.
TargetQs(batch) ==
    Tensor(2, [b \in 1..Len(batch) |->
                 [i \in Agents |->
                     MaxOf(QNetwork(target_params[i], batch[b].next_states[i]))]])

\* Line 196, in thousandths.
TDTarget(batch, target_q_tot) ==
    [b \in 1..Len(batch) |->
        batch[b].reward * Scale
          + (IF batch[b].done THEN 0 ELSE 1) * Gamma * target_q_tot[b]]

\* Line 199, nn.MSELoss.
MSELoss(q_tot, target) ==
    SumSeq([b \in 1..Len(target) |->
              (q_tot[b] * Scale - target[b]) * (q_tot[b] * Scale - target[b])])
        \div Len(target)

\* What one train_step call on the sampled positions idx does: the sentinel
\* below batch_size; otherwise the exception of the first mixer call that
\* raises, or the update of lines 201-228.
TrainStepEffect(idx) ==
    LET batch == [k \in 1..Len(idx) |-> buffer[idx[k]]]
        q_tot == VDNMixerForward(SelectedQs(batch))
        target_q_tot == VDNMixerForward(TargetQs(batch))
        step == training_step + 1
        sync == step % target_update_freq = 0
        stepped == [a \in Agents |-> q_params[a] + 1]
    IN  IF q_tot.raised # "none"
        THEN [kind |-> "raised", error |-> q_tot.raised, loss |-> 0, norm |-> 0,
              step |-> training_step, q |-> q_params, t |-> target_params,
              eps |-> epsilon]
        ELSE IF target_q_tot.raised # "none"
        THEN [kind |-> "raised", error |-> target_q_tot.raised, loss |-> 0, norm |-> 0,
              step |-> training_step, q |-> q_params, t |-> target_params,
              eps |-> epsilon]
        ELSE [kind |-> "trained", error |-> "none",
              loss |-> MSELoss(q_tot.out.v, TDTarget(batch, target_q_tot.out.v)),
              norm |-> NumAgents,
              step |-> step,
              q |-> stepped,
              t |-> IF sync THEN stepped ELSE target_params,
              eps |-> IF batch_size > 0
                      THEN [a \in Agents |->
                              DecayEpsilon(epsilon[a], epsilon_min, epsilon_decay)]
                      ELSE epsilon]

\* Mutant of TrainStepSkips: the guard is off by one.
TrainStepSkipsOffByOne == BufferLen(buffer) < batch_size - 1

\* Lines 152-155: the buffer is below batch_size.
TrainStepSkips == BufferLen(buffer) < batch_size

\* Line 155: return 0, 0.
NoopSentinel == [kind |-> "noop", loss |-> 0, norm |-> 0, error |-> "none"]

\* np.random.choice(n, k, replace=False) raises ValueError when k > n.
SampleRaises(n, k) == k > n

\* train_step(batch_size), called as the Trainer calls it (main.py:120-122).
TrainStep ==
    /\ calls < MaxCalls
    /\ calls' = calls + 1
    /\ IF TrainStepSkips
       THEN /\ last_call' = NoopSentinel
            /\ UNCHANGED <<training_step, q_params, target_params, epsilon,
                           data_calls, trained_calls>>
       ELSE IF SampleRaises(BufferLen(buffer), batch_size)
       THEN /\ last_call' = [kind |-> "raised", loss |-> 0, norm |-> 0,
                             error |-> "ValueError"]
            /\ UNCHANGED <<training_step, q_params, target_params, epsilon,
                           data_calls, trained_calls>>
       ELSE \E idx \in SampleIndices(BufferLen(buffer), batch_size) :
              LET r == TrainStepEffect(idx)
              IN  /\ last_call' = [kind |-> r.kind, loss |-> r.loss,
                                   norm |-> r.norm, error |-> r.error]
                  /\ training_step' = r.step
                  /\ q_params' = r.q
                  /\ target_params' = r.t
                  /\ epsilon' = r.eps
                  /\ data_calls' = data_calls + 1
                  /\ trained_calls' = trained_calls + (IF r.kind = "trained" THEN 1 ELSE 0)
    /\ UNCHANGED <<capacity, buffer, added, batch_size, target_update_freq,
                   epsilon_start, epsilon_min, epsilon_decay, episodes>>

\* remember(experience): central_buffer.add.
Remember ==
    /\ Len(added) < MaxAdds
    /\ \E e \in Experiences :
         /\ buffer' = BufferAdd(buffer, capacity, e)
         /\ added' = Append(added, e)
    /\ UNCHANGED <<capacity, batch_size, target_update_freq, training_step, epsilon,
                   epsilon_start, epsilon_min, epsilon_decay, q_params, target_params,
                   last_call, calls, data_calls, trained_calls, episodes>>

\* Trainer.train_episode, lines 140-142: once the step loop has ended without
\* an exception, every agent's epsilon is decayed.
EpisodeEnd ==
    /\ episodes < MaxEpisodes
    /\ last_call.kind # "raised"
    /\ epsilon' = [a \in Agents |-> DecayEpsilon(epsilon[a], epsilon_min, epsilon_decay)]
    /\ episodes' = episodes + 1
    /\ UNCHANGED <<capacity, buffer, added, batch_size, target_update_freq,
                   training_step, epsilon_start, epsilon_min, epsilon_decay,
                   q_params, target_params, last_call, calls, data_calls,
                   trained_calls>>

\* Configurations: epsilon_min <= epsilon_start, 0 < epsilon_decay <= 1.
EpsilonConfigs ==
    { [start |-> 1000, min |-> 50, decay |-> 500],
      [start |-> 100, min |-> 50, decay |-> 500],
      [start |-> 1000, min |-> 100, decay |-> 995],
      [start |-> 100, min |-> 100, decay |-> 1000] }

TrainInit ==
    /\ capacity \in 1..MaxCapacity
    /\ buffer = << >>
    /\ added = << >>
    /\ batch_size \in 1..MaxBatch
    /\ target_update_freq \in 1..MaxFreq
    /\ training_step = 0
    /\ \E c \in EpsilonConfigs :
         /\ epsilon_start = c.start
         /\ epsilon_min = c.min
         /\ epsilon_decay = c.decay
         /\ epsilon = [a \in Agents |-> c.start]
    /\ q_params = [a \in Agents |-> 0]
    /\ target_params = [a \in Agents |-> 0]
    /\ last_call = NoCall
    /\ calls = 0
    /\ data_calls = 0
    /\ trained_calls = 0
    /\ episodes = 0

(* --------------- AgentCommunication (agents/communication.py) ----------- *)
Callers == 1..NumCallers
Free == -1
RxThread == 0
\* Sender ids carried in the "sender" field of a message.
Senders == {"J1_center", "J3_center"}

\* Payloads: act_with_coordination's state_info (multi_agent_system.py:318-322),
\* act's state_info (127-131) and a send_prediction payload without a queue.
QueueOf(ts) == [i \in 1..QueueDim |-> 10 * ts + i]
CoordData(ts) == [queue |-> QueueOf(ts), current_phase |-> (ts + 4) % 8,
                  intended_action |-> ts % ActionDim]
ActData(ts) == [queue |-> QueueOf(ts), full_state |-> QueueOf(ts)]
PredictionData(ts) == [outflow |-> ts]
DataKinds == {"coord", "act", "prediction"}
DataOf(kind, ts) ==
    CASE kind = "coord" -> CoordData(ts)
      [] kind = "act" -> ActData(ts)
      [] OTHER -> PredictionData(ts)

\* send_state / send_prediction: the message put on the wire.
WireMessage(sender, ts, kind) ==
    [sender |-> sender, timestamp |-> ts, data |-> DataOf(kind, ts),
     type |-> IF kind = "prediction" THEN "prediction" ELSE "state_update"]

\* A message published through MultiAgentSystem.send_message (lines 88-98),
\* which sends the caller's dict as it is: here one without a "sender" key.
RawMessage(ts) == [timestamp |-> ts, data |-> PredictionData(ts), type |-> "raw"]

\* Lines 91-96 read message["sender"], message["data"], message["timestamp"].
WellFormed(m) == {"sender", "data", "timestamp"} \subseteq DOMAIN m

PositionOf(box, sender) ==
    IF \E i \in 1..Len(box) : box[i].sender = sender
    THEN CHOOSE i \in 1..Len(box) : box[i].sender = sender
    ELSE 0

\* Mutant of MailboxStore: a sender's first message is kept.
MailboxStoreKeepFirst(box, m) ==
    LET entry == [sender |-> m.sender, data |-> m.data,
                  timestamp |-> m.timestamp, type |-> m.type]
    IN  IF \E i \in 1..Len(box) : box[i].sender = m.sender
        THEN box ELSE Append(box, entry)

\* Lines 91-96: received_messages[sender] = {data, timestamp, type}; a dict
\* keeps a key's first position when its value is replaced.
MailboxStore(box, m) ==
    LET entry == [sender |-> m.sender, data |-> m.data,
                  timestamp |-> m.timestamp, type |-> m.type]
        i == PositionOf(box, m.sender)
    IN  IF i = 0 THEN Append(box, entry) ELSE [box EXCEPT ![i] = entry]

\* What the neighbors publish: J1_center announces its intent or sends a
\* prediction; a message relayed under another sender id carries act's payload.
Publications ==
    { <<"J1_center", "coord">>, <<"J1_center", "prediction">>,
      <<"J3_center", "act">> }

\* Mutant of LockAvailable: the mailbox is touched without the lock.
LockIgnored == TRUE

\* A `with self.lock` can be entered.
LockAvailable == lock = Free

\* A neighbor's publisher sends; the message reaches this agent's SUB socket.
Deliver ==
    /\ published < MaxMsgs
    /\ \/ \E p \in Publications :
            sub_queue' = Append(sub_queue, WireMessage(p[1], published + 1, p[2]))
       \/ sub_queue' = Append(sub_queue, RawMessage(published + 1))
    /\ published' = published + 1
    /\ UNCHANGED <<received_messages, lock, rx_pc, rx_msg, c_pc, c_op, c_base,
                   c_local, c_result, c_arrived, stored, returned, overwritten,
                   since_clear>>

\* _receive_loop, lines 85-88: poll reports the socket, recv_json takes a message.
RxReceive ==
    /\ rx_pc = "poll"
    /\ sub_queue # << >>
    /\ rx_msg' = Head(sub_queue)
    /\ sub_queue' = Tail(sub_queue)
    /\ rx_pc' = "recvd"
    /\ UNCHANGED <<published, received_messages, lock, c_pc, c_op, c_base,
                   c_local, c_result, c_arrived, stored, returned, overwritten,
                   since_clear>>

\* Line 90: with self.lock.
RxAcquire ==
    /\ rx_pc = "recvd"
    /\ LockAvailable
    /\ lock' = RxThread
    /\ rx_pc' = "locked"
    /\ UNCHANGED <<sub_queue, published, received_messages, rx_msg, c_pc, c_op,
                   c_base, c_local, c_result, c_arrived, stored, returned, overwritten,
                   since_clear>>

\* Mutant of RxAfterError: an exception ends the receive loop.
RxStopsAfterError == "stopped"

\* Lines 83-84 and 100-101: the try is inside `while True`, so after the
\* handler the loop polls again.
RxAfterError == "poll"

\* Lines 91-96 and the end of the with block. A message lacking a key raises
\* KeyError before anything is assigned; the with block releases the lock and
\* the handler of lines 100-101 lets the loop go on.
RxStore ==
    /\ rx_pc = "locked"
    /\ IF WellFormed(rx_msg)
       THEN /\ received_messages' = MailboxStore(received_messages, rx_msg)
            /\ LET i == PositionOf(received_messages, rx_msg.sender)
               IN  overwritten' = IF i = 0 THEN overwritten
                                  ELSE overwritten \cup {received_messages[i].timestamp}
            /\ stored' = stored \cup {rx_msg.timestamp}
            /\ since_clear' = [since_clear EXCEPT ![rx_msg.sender] = Append(@, rx_msg)]
       ELSE UNCHANGED <<received_messages, overwritten, stored, since_clear>>
    /\ lock' = Free
    /\ rx_pc' = IF WellFormed(rx_msg) THEN "poll" ELSE RxAfterError
    /\ UNCHANGED <<sub_queue, published, rx_msg, c_pc, c_op, c_base, c_local,
                   c_result, c_arrived, returned>>

\* Line 85 when no message arrives within 100 ms: poll returns an empty
\* list, the for loop has nothing to do and the while loop polls again.
RxTimeout ==
    /\ rx_pc = "poll"
    /\ sub_queue = << >>
    /\ UNCHANGED commVars

(* -------- get_neighbor_messages and get_enhanced_state callers ---------- *)
\* Base observations: the expected 13 features, and a short one (only warned
\* about, lines 276-277).
BaseStates == { [i \in 1..n |-> 0] : n \in {2, 13} }

NoArrivals == [s \in Senders |-> << >>]
NoResult == [kind |-> "none", messages |-> << >>, base |-> << >>, enhanced |-> << >>,
             arrived |-> NoArrivals]

\* Mutant of MessageFeatures: the intended action precedes the phase.
MessageFeaturesActionFirst(message) ==
    IF "data" \in DOMAIN message /\ "queue" \in DOMAIN message.data
    THEN message.data.queue
           \o << IF "intended_action" \in DOMAIN message.data
                 THEN message.data.intended_action ELSE 0 >>
           \o << IF "current_phase" \in DOMAIN message.data
                 THEN message.data.current_phase ELSE 0 >>
    ELSE << >>

\* Lines 261-266: the features one mailbox entry contributes.
MessageFeatures(message) ==
    IF "data" \in DOMAIN message /\ "queue" \in DOMAIN message.data
    THEN message.data.queue
           \o << IF "current_phase" \in DOMAIN message.data
                 THEN message.data.current_phase ELSE 0 >>
           \o << IF "intended_action" \in DOMAIN message.data
                 THEN message.data.intended_action ELSE 0 >>
    ELSE << >>

RECURSIVE NeighborInfo(_)
NeighborInfo(messages) ==
    IF messages = << >> THEN << >>
    ELSE MessageFeatures(Head(messages)) \o NeighborInfo(Tail(messages))

\* Lines 269-270: while len(neighbor_info) < 10: append(0).
PadInfo(info) ==
    info \o [i \in 1..(IF Len(info) < NeighborFeatureDim
                       THEN NeighborFeatureDim - Len(info) ELSE 0) |-> 0]

\* Mutant of NeighborFeatures: the slice to 10 values is left out.
NeighborFeaturesUncut(info) == PadInfo(info)

\* Line 273: neighbor_info[:10].
NeighborFeatures(info) == SubSeq(PadInfo(info), 1, NeighborFeatureDim)

\* Mutant of EnhancedState: the neighbor features come first.
EnhancedStateNeighborsFirst(base_state, messages) ==
    NeighborFeatures(NeighborInfo(messages)) \o base_state

\* Lines 260-289, given the drained messages.
EnhancedState(base_state, messages) ==
    base_state \o NeighborFeatures(NeighborInfo(messages))

\* A thread calls get_neighbor_messages.
CallDrain(c) ==
    /\ c_pc[c] = "idle"
    /\ c_pc' = [c_pc EXCEPT ![c] = "acquire"]
    /\ c_op' = [c_op EXCEPT ![c] = "drain"]
    /\ UNCHANGED <<sub_queue, published, received_messages, lock, rx_pc, rx_msg,
                   c_base, c_local, c_result, c_arrived, stored, returned, overwritten,
                   since_clear>>

\* A thread calls get_enhanced_state(base_state, agent_id), which first drains
\* the agent's mailbox (line 258).
CallEnhanced(c) ==
    /\ c_pc[c] = "idle"
    /\ \E b \in BaseStates : c_base' = [c_base EXCEPT ![c] = b]
    /\ c_pc' = [c_pc EXCEPT ![c] = "acquire"]
    /\ c_op' = [c_op EXCEPT ![c] = "enhanced"]
    /\ UNCHANGED <<sub_queue, published, received_messages, lock, rx_pc, rx_msg,
                   c_local, c_result, c_arrived, stored, returned, overwritten,
                   since_clear>>

\* communication.py line 105: with self.lock.
DrainAcquire(c) ==
    /\ c_pc[c] = "acquire"
    /\ LockAvailable
    /\ lock' = c
    /\ c_pc' = [c_pc EXCEPT ![c] = "copy"]
    /\ UNCHANGED <<sub_queue, published, received_messages, rx_pc, rx_msg, c_op,
                   c_base, c_local, c_result, c_arrived, stored, returned, overwritten,
                   since_clear>>

\* Line 106: messages = self.received_messages.copy().
DrainCopy(c) ==
    /\ c_pc[c] = "copy"
    /\ c_local' = [c_local EXCEPT ![c] = received_messages]
    /\ c_pc' = [c_pc EXCEPT ![c] = "clear"]
    /\ UNCHANGED <<sub_queue, published, received_messages, lock, rx_pc, rx_msg,
                   c_op, c_base, c_result, c_arrived, stored, returned, overwritten,
                   since_clear>>

\* Line 107: self.received_messages.clear().
DrainClear(c) ==
    /\ c_pc[c] = "clear"
    /\ received_messages' = << >>
    /\ since_clear' = NoArrivals
    /\ c_arrived' = [c_arrived EXCEPT ![c] = since_clear]
    /\ c_pc' = [c_pc EXCEPT ![c] = "release"]
    /\ UNCHANGED <<sub_queue, published, lock, rx_pc, rx_msg, c_op, c_base,
                   c_local, c_result, stored, returned, overwritten>>

\* End of the with block and `return messages`; get_enhanced_state goes on to
\* build and return the enhanced observation.
DrainReturn(c) ==
    /\ c_pc[c] = "release"
    /\ lock' = Free
    /\ c_result' = [c_result EXCEPT ![c] =
          [kind |-> c_op[c],
           messages |-> c_local[c],
           arrived |-> c_arrived[c],
           base |-> IF c_op[c] = "enhanced" THEN c_base[c] ELSE << >>,
           enhanced |-> IF c_op[c] = "enhanced"
                        THEN EnhancedState(c_base[c], c_local[c]) ELSE << >>]]
    /\ returned' = [t \in 1..MaxMsgs |->
                      returned[t] +
                        (IF \E i \in 1..Len(c_local[c]) : c_local[c][i].timestamp = t
                         THEN 1 ELSE 0)]
    /\ c_pc' = [c_pc EXCEPT ![c] = "idle"]
    /\ UNCHANGED <<sub_queue, published, received_messages, rx_pc, rx_msg, c_op,
                   c_base, c_local, c_arrived, stored, overwritten, since_clear>>

CommInit ==
    /\ sub_queue = << >>
    /\ published = 0
    /\ received_messages = << >>
    /\ lock = Free
    /\ rx_pc = "poll"
    /\ rx_msg = WireMessage("J1_center", 0, "prediction")
    /\ c_pc = [c \in Callers |-> "idle"]
    /\ c_op = [c \in Callers |-> "drain"]
    /\ c_base = [c \in Callers |-> << >>]
    /\ c_local = [c \in Callers |-> << >>]
    /\ c_result = [c \in Callers |-> NoResult]
    /\ c_arrived = [c \in Callers |-> NoArrivals]
    /\ stored = {}
    /\ returned = [t \in 1..MaxMsgs |-> 0]
    /\ overwritten = {}
    /\ since_clear = NoArrivals

(* ------------------------ the mixer as a function ----------------------- *)
QValues == {-1, 0, 1}
NoTensor == Tensor(0, << >>)

\* Inputs: [batch, num_agents] chosen-action values as train_step stacks them,
\* and [batch, num_agents, action_dim] tables as the docstring describes.
MixerInputs ==
    { Tensor(2, t) : t \in UNION { [1..b -> [Agents -> QValues]] : b \in 1..MaxBatch } }
      \cup { Tensor(3, t) : t \in [1..1 -> [Agents -> [1..2 -> QValues]]] }

NotCalled == [raised |-> "pending", out |-> NoTensor]

MixerInit ==
    /\ mixer_in \in MixerInputs
    /\ mixer_out = NotCalled
    /\ mixer_built = MixerConstruction

MixerIdle ==
    /\ mixer_in = NoTensor
    /\ mixer_out = NotCalled
    /\ mixer_built = MixerConstruction

MixerCall ==
    /\ mixer_out = NotCalled
    /\ mixer_out' = VDNMixerForward(mixer_in)
    /\ UNCHANGED <<mixer_in, mixer_built>>

(* ------------- further state: single calls and other programs ---------- *)
VARIABLES
    act_call,           \* the last DQNAgent.act call: its arguments and result
    rx_log,             \* outcomes of the receive loop's iterations, in order
    tl_phase,           \* the simulator's phase of a traffic light
    ta_call,            \* the last TrafficActions.execute_action call
    ft_running,         \* FixedTimeController: the simulation is started
    ft_current_phase,   \* FixedTimeController.current_phase
    ft_cycle_position,  \* FixedTimeController.cycle_position
    ft_elapsed,         \* simulation time minus FixedTimeController.phase_start_time
    ft_commanded,       \* the phase last passed to traci.trafficlight.setPhase
    ex_pc,              \* MARLExecutor.run: episode, close_env, returned, raised
    ex_max_steps,       \* the max_steps argument of run_single_episode
    env_open,           \* the simulator handle is held
    chan_open,          \* per agent: the AgentCommunication sockets are open
    ex_stored           \* per agent: messages its receiver thread has stored

actVars == <<act_call>>
listenVars == <<rx_log>>
taVars == <<tl_phase, ta_call>>
ftVars == <<ft_running, ft_current_phase, ft_cycle_position, ft_elapsed, ft_commanded>>
execVars == <<ex_pc, ex_max_steps, env_open, chan_open, ex_stored>>

lateVars == <<actVars, listenVars, taVars, ftVars, execVars>>

(* ------------- model persistence (save_models / load_models) ----------- *)
VARIABLES
    files,              \* the models directory: per agent a checkpoint, or none
    opt_state,          \* agent.optimizer state, per agent (a version number)
    agent_step,         \* DQNAgent.training_step, per agent
    load_result,        \* what the last load_models call returned
    pre_load,           \* history: every agent's state when load_models was called
    at_save,            \* history: the system's state when save_models last ran
    last_op,            \* history: the operation that ran last
    net_shape           \* state_dim and action_dim the agents' networks were built with

loadVars == <<files, opt_state, agent_step, load_result, pre_load, at_save,
              last_op, net_shape>>


\* os.path.exists(model_path) is false.
Missing == [kind |-> "missing"]
\* A file torch.load cannot read.
Unreadable == [kind |-> "unreadable"]

\* Trainer.__init__ builds the system on the environment's observation
\* (13 values) with 4 actions; MARLExecutor.setup builds it on the enhanced
\* observation (13 + 10) with 5 actions.
TrainerShape == [state_dim |-> 13, action_dim |-> 4]
ExecutorShape == [state_dim |-> 23, action_dim |-> 5]
Shapes == {TrainerShape, ExecutorShape}

\* A network some of whose layers were copied from a state dict and some not.
Mixed == -1

\* load_state_dict (strict): every tensor whose shape matches is copied,
\* and a RuntimeError is raised afterwards if any did not.  The layers are
\* Linear(state_dim, 64), Linear(64, 64), Linear(64, action_dim).
LoadStateDict(old, new, shape, built) ==
    IF shape = built THEN [params |-> new, raised |-> FALSE]
    ELSE [params |-> IF old = new THEN old ELSE Mixed, raised |-> TRUE]

\* DQNAgent.save: the checkpoint dict written for one agent.
Checkpoint(shape, q, t, opt, eps, step) ==
    [kind |-> "checkpoint",
     shape |-> shape,
     q_network_state_dict |-> q,
     target_network_state_dict |-> t,
     optimizer_state_dict |-> opt,
     epsilon |-> eps,
     training_step |-> step]

\* One agent's loadable state.
AgentState(a) ==
    [q |-> q_params[a], t |-> target_params[a], opt |-> opt_state[a],
     eps |-> epsilon[a], step |-> agent_step[a]]

AllAgentStates == [a \in Agents |-> AgentState(a)]

\* Mutant of AgentLoad: whatever the file holds, the load reports success.
AgentLoadNeverRaises(st, file, built) ==
    IF file.kind # "checkpoint"
    THEN [state |-> st, raised |-> FALSE]
    ELSE [state |-> [q |-> file.q_network_state_dict,
                     t |-> file.target_network_state_dict,
                     opt |-> file.optimizer_state_dict,
                     eps |-> IF "epsilon" \in DOMAIN file THEN file.epsilon ELSE st.eps,
                     step |-> IF "training_step" \in DOMAIN file
                              THEN file.training_step ELSE st.step],
          raised |-> FALSE]

\* DQNAgent.load on a file that exists: torch.load, then the five
\* assignments in order; a state dict of another shape raises after the
\* matching layers were copied, and the first key the checkpoint lacks raises
\* KeyError after the assignments before it.
AgentLoad(st, file, built) ==
    IF file.kind # "checkpoint"
    THEN [state |-> st, raised |-> TRUE]
    ELSE IF "q_network_state_dict" \notin DOMAIN file
    THEN [state |-> st, raised |-> TRUE]
    ELSE
    LET lq == LoadStateDict(st.q, file.q_network_state_dict, file.shape, built)
        s1 == [st EXCEPT !.q = lq.params]
    IN  IF lq.raised \/ "target_network_state_dict" \notin DOMAIN file
        THEN [state |-> s1, raised |-> TRUE]
        ELSE
        LET lt == LoadStateDict(s1.t, file.target_network_state_dict, file.shape, built)
            s2 == [s1 EXCEPT !.t = lt.params]
        IN  IF lt.raised \/ "optimizer_state_dict" \notin DOMAIN file
            THEN [state |-> s2, raised |-> TRUE]
            ELSE
            LET s3 == [s2 EXCEPT !.opt = file.optimizer_state_dict]
            IN  IF "epsilon" \notin DOMAIN file
                THEN [state |-> s3, raised |-> TRUE]
                ELSE
                LET s4 == [s3 EXCEPT !.eps = file.epsilon]
                IN  IF "training_step" \notin DOMAIN file
                    THEN [state |-> s4, raised |-> TRUE]
                    ELSE [state |-> [s4 EXCEPT !.step = file.training_step],
                          raised |-> FALSE]

\* load_models, lines 241-253: the agents in dict order; a missing file
\* returns False at once, an exception of agent.load is caught and returns
\* False, and True is returned after the last agent.
RECURSIVE LoadModelsFrom(_, _, _, _)
LoadModelsFrom(i, states, dir, built) ==
    IF i > NumAgents THEN [states |-> states, result |-> "True"]
    ELSE IF dir[i].kind = "missing" THEN [states |-> states, result |-> "False"]
    ELSE LET r == AgentLoad(states[i], dir[i], built)
             next == [states EXCEPT ![i] = r.state]
         IN  IF r.raised THEN [states |-> next, result |-> "False"]
             ELSE LoadModelsFrom(i + 1, next, dir, built)

LoadModelsEffect(states, dir, built) == LoadModelsFrom(1, states, dir, built)

\* load_models(path)
LoadModels ==
    LET r == LoadModelsEffect(AllAgentStates, files, net_shape)
    IN  /\ q_params' = [a \in Agents |-> r.states[a].q]
        /\ target_params' = [a \in Agents |-> r.states[a].t]
        /\ opt_state' = [a \in Agents |-> r.states[a].opt]
        /\ epsilon' = [a \in Agents |-> r.states[a].eps]
        /\ agent_step' = [a \in Agents |-> r.states[a].step]
        /\ load_result' = r.result
        /\ pre_load' = AllAgentStates
        /\ last_op' = "load_models"
        /\ UNCHANGED <<files, at_save, net_shape, capacity, buffer, added, batch_size,
                       target_update_freq, training_step, epsilon_start,
                       epsilon_min, epsilon_decay, last_call, calls, data_calls,
                       trained_calls, episodes>>

\* save_models(path), lines 234-237, with DQNAgent.save for every agent.
SavedFiles ==
    [a \in Agents |-> Checkpoint(net_shape, q_params[a], target_params[a],
                                 opt_state[a], epsilon[a], agent_step[a])]

SaveModels ==
    /\ files' = SavedFiles
    /\ at_save' = [saved |-> TRUE, agents |-> AllAgentStates,
                   training_step |-> training_step]
    /\ last_op' = "save_models"
    /\ UNCHANGED <<opt_state, agent_step, load_result, pre_load, net_shape>>
    /\ UNCHANGED trainVars

\* A process builds its MultiAgentSystem (Trainer.__init__ or
\* MARLExecutor.setup): fresh agents over the directory left on disk.
BuildSystem(shape) ==
    /\ net_shape' = shape
    /\ q_params' = [a \in Agents |-> 0]
    /\ target_params' = [a \in Agents |-> 0]
    /\ opt_state' = [a \in Agents |-> 0]
    /\ agent_step' = [a \in Agents |-> 0]
    /\ epsilon' = [a \in Agents |-> epsilon_start]
    /\ training_step' = 0
    /\ episodes' = 0
    /\ last_call' = NoCall
    /\ load_result' = "none"
    /\ pre_load' = << >>
    /\ last_op' = "build"
    /\ UNCHANGED <<files, at_save, capacity, buffer, added, batch_size,
                   target_update_freq, epsilon_start, epsilon_min, epsilon_decay,
                   calls, data_calls, trained_calls>>

\* An episode of Trainer.train between saves and loads.
EpisodeEndLoad ==
    /\ EpisodeEnd
    /\ last_op' = "train_episode"
    /\ UNCHANGED <<files, opt_state, agent_step, load_result, pre_load, at_save,
                   net_shape>>

\* Checkpoints found in a models directory that this run did not write: one
\* of a trained agent and one of an older layout without the epsilon and
\* training_step keys.
ForeignCheckpoints ==
    { Checkpoint(TrainerShape, 7, 6, 7, 50, 0),
      [kind |-> "checkpoint", shape |-> ExecutorShape, q_network_state_dict |-> 5,
       target_network_state_dict |-> 5, optimizer_state_dict |-> 5] }

Directories == [Agents -> {Missing, Unreadable} \cup ForeignCheckpoints]

NotSaved == [saved |-> FALSE, agents |-> << >>, training_step |-> 0]

LoadIdle ==
    /\ files = [a \in Agents |-> Missing]
    /\ opt_state = [a \in Agents |-> 0]
    /\ agent_step = [a \in Agents |-> 0]
    /\ load_result = "none"
    /\ pre_load = << >>
    /\ at_save = NotSaved
    /\ last_op = "none"
    /\ net_shape = TrainerShape

\* The training-side fields of a system that has not trained.
TrainIdle ==
    /\ capacity = 1 /\ buffer = << >> /\ added = << >>
    /\ batch_size = 1 /\ target_update_freq = 1 /\ training_step = 0
    /\ epsilon_start = Scale /\ epsilon_min = Scale /\ epsilon_decay = Scale
    /\ epsilon = [a \in Agents |-> Scale]
    /\ q_params = [a \in Agents |-> 0] /\ target_params = [a \in Agents |-> 0]
    /\ last_call = NoCall /\ calls = 0 /\ data_calls = 0 /\ trained_calls = 0
    /\ episodes = 0

(* ---------------- CentralizedBuffer.sample (agents/vdn_mixer.py) ------- *)
VARIABLES
    sample_out,         \* what the last sample(batch_size) call did, and the
                        \* number of add calls made before it
    sample_pre          \* history: the buffer when sample was called

sampleVars == <<sample_out, sample_pre>>

\* Mutant of RandomChoice: replace=True.
RandomChoiceWithReplacement(n, k) ==
    IF n = 0 /\ k > 0
    THEN {[raised |-> "ValueError", indices |-> << >>]}
    ELSE {[raised |-> "none", indices |-> idx] : idx \in [1..k -> 1..n]}

\* Line 79, np.random.choice(len(self.buffer), batch_size, replace=False):
\* ValueError when the sample is larger than the population, else any
\* batch_size pairwise distinct positions.
RandomChoice(n, k) ==
    IF SampleRaises(n, k)
    THEN {[raised |-> "ValueError", indices |-> << >>]}
    ELSE {[raised |-> "none", indices |-> idx] : idx \in SampleIndices(n, k)}

\* Lines 80-90: the sampled experiences, separated into their five components.
SampleBatch(buf, indices) ==
    LET batch == [b \in 1..Len(indices) |-> buf[indices[b]]]
    IN  [states_batch |-> [b \in 1..Len(batch) |-> batch[b].states],
         actions_batch |-> [b \in 1..Len(batch) |-> batch[b].actions],
         rewards_batch |-> [b \in 1..Len(batch) |-> batch[b].reward],
         next_states_batch |-> [b \in 1..Len(batch) |-> batch[b].next_states],
         dones_batch |-> [b \in 1..Len(batch) |-> batch[b].done]]

NoSample == [kind |-> "none", size |-> 0, indices |-> << >>, batch |-> << >>,
             error |-> "none", adds |-> 0]

\* sample(batch_size)
Sample(k) ==
    /\ \E c \in RandomChoice(BufferLen(buffer), k) :
         sample_out' =
             IF c.raised # "none"
             THEN [kind |-> "raised", size |-> k, indices |-> << >>,
                   batch |-> << >>, error |-> c.raised, adds |-> Len(added)]
             ELSE [kind |-> "batch", size |-> k, indices |-> c.indices,
                   batch |-> SampleBatch(buffer, c.indices), error |-> "none",
                   adds |-> Len(added)]
    /\ sample_pre' = buffer
    /\ UNCHANGED trainVars

SampleIdle ==
    /\ sample_out = NoSample
    /\ sample_pre = << >>

(* --------------- the target of train_step (lines 184-196) ------------- *)
VARIABLES
    td_batch,           \* the sampled transitions
    td_out              \* what the target computation produced

tdVars == <<td_batch, td_out>>

NoTarget == [kind |-> "none", error |-> "none", target |-> << >>]

\* Lines 184-196 on the batch: the agents' maximal target values are stacked
\* to [batch, num_agents], passed through the mixer, and combined with the
\* rewards and dones.
ComputeTarget ==
    /\ td_out = NoTarget
    /\ LET target_q_tot == VDNMixerForward(TargetQs(td_batch))
       IN  td_out' =
               IF target_q_tot.raised # "none"
               THEN [kind |-> "raised", error |-> target_q_tot.raised, target |-> << >>]
               ELSE [kind |-> "target", error |-> "none",
                     target |-> TDTarget(td_batch, target_q_tot.out.v)]
    /\ UNCHANGED td_batch
    /\ UNCHANGED trainVars

\* Batches of one to MaxBatch transitions.
Batches == UNION { [1..n -> Experiences] : n \in 1..MaxBatch }

TargetIdle ==
    /\ td_batch = << >>
    /\ td_out = NoTarget

(* ------- the run loops (main.py Trainer.train, executor.py) ------------ *)
VARIABLES
    run_kind,           \* which program runs: train or execute
    run_pc,             \* running, finished, crashed (exception), interrupted (Ctrl+C)
    num_episodes,       \* config['num_episodes']
    save_frequency,     \* config['save_frequency']
    episode,            \* episodes completed by Trainer.train
    episode_rewards,    \* Trainer.episode_rewards (lengths and losses grow with it)
    exec_iters,         \* iterations made by run_single_episode's loop
    reward_history,     \* MARLExecutor.metrics['reward_history']
    persisted           \* the metrics last written to the logs directory

runVars == <<run_kind, run_pc, num_episodes, save_frequency, episode,
             episode_rewards, exec_iters, reward_history, persisted>>

NothingPersisted == [written |-> FALSE, metrics |-> << >>]
Persist(metrics) == [written |-> TRUE, metrics |-> metrics]

\* How one iteration of a loop ends: normally, with an exception, or with
\* the user's Ctrl+C.
Outcomes == {"ok", "Exception", "KeyboardInterrupt"}

EpisodeRewards == {-2, -1}

\* One iteration of the loop of Trainer.train, lines 153-179, and after the
\* last one save_final_results (line 186).  No exception is caught.
TrainIteration ==
    /\ run_kind = "train"
    /\ run_pc = "running"
    /\ \E outcome \in Outcomes, r \in EpisodeRewards :
         IF outcome = "ok"
         THEN LET done == episode + 1
                  rewards == Append(episode_rewards, r)
              IN  /\ episode' = done
                  /\ episode_rewards' = rewards
                  /\ persisted' =
                         IF done % save_frequency = 0 \/ done = num_episodes
                         THEN Persist(rewards) ELSE persisted
                  /\ run_pc' = IF done = num_episodes THEN "finished" ELSE "running"
         ELSE /\ run_pc' = IF outcome = "Exception" THEN "crashed" ELSE "interrupted"
              /\ UNCHANGED <<episode, episode_rewards, persisted>>
    /\ UNCHANGED <<run_kind, num_episodes, save_frequency, exec_iters, reward_history>>

\* One iteration of the loop of run_single_episode, lines 144-180, with the
\* handler of lines 182-184: only KeyboardInterrupt is caught, and the loop
\* never writes to self.metrics.
ExecIteration ==
    /\ run_kind = "execute"
    /\ run_pc = "running"
    /\ \E outcome \in Outcomes :
         CASE outcome = "ok" ->
                /\ exec_iters < MaxSteps
                /\ exec_iters' = exec_iters + 1
                /\ UNCHANGED <<run_pc, persisted>>
           [] outcome = "KeyboardInterrupt" ->
                /\ run_pc' = "interrupted"
                /\ persisted' = Persist(reward_history)
                /\ UNCHANGED exec_iters
           [] OTHER ->
                /\ run_pc' = "crashed"
                /\ UNCHANGED <<exec_iters, persisted>>
    /\ UNCHANGED <<run_kind, num_episodes, save_frequency, episode, episode_rewards,
                   reward_history>>

RunIdle ==
    /\ run_kind = "none"
    /\ run_pc = "idle"
    /\ num_episodes = 1
    /\ save_frequency = 1
    /\ episode = 0
    /\ episode_rewards = << >>
    /\ exec_iters = 0
    /\ reward_history = << >>
    /\ persisted = NothingPersisted

(* ------------- decision cycles (act / act_with_coordination) ----------- *)
VARIABLES
    co_pc,              \* position of the call: idle, announce, sleep, select, returned, raised
    co_i,               \* the agent the current loop is at
    co_fn,              \* the method called: act or act_with_coordination
    co_states,          \* the states argument: each agent's base observation
    co_mode,            \* the training_mode argument
    co_actions,         \* the actions dict built so far
    co_enhanced,        \* the observation each agent's action was selected on
    co_log,             \* history: publishes, mailbox drains and actions of this call
    co_failed,          \* history: a send_state of this call raised
    previous_actions,   \* MultiAgentSystem.previous_actions
    communication_enabled,
    in_flight,          \* per receiver: published messages not yet received
    mailbox,            \* per agent: AgentCommunication.received_messages
    closed,             \* per agent: AgentCommunication.close() was called
    cycle               \* number of calls made; the clock of the timestamps

coordVars == <<co_pc, co_i, co_fn, co_states, co_mode, co_actions, co_enhanced,
               co_log, co_failed, previous_actions, communication_enabled,
               in_flight, mailbox, closed, cycle>>

extVars == <<loadVars, coordVars, sampleVars, tdVars, runVars>>

\* neighbor_map, lines 45-48: each of the two junctions talks to the other.
NeighborsOf(a) == Agents \ {a}

\* The environment's observation of a junction: 13 values, the first four
\* the queues, state[8] the phase share.
BaseStateDim == 13
Observation(a, v) ==
    [j \in 1..BaseStateDim |->
        IF j <= QueueDim THEN v + a + j ELSE IF j = 9 THEN v ELSE 0]
ObservationKinds == 1..2

Zeros(n) == [j \in 1..n |-> 0]

\* Mutant of ArgMax: of several maximal values the last one is taken.
ArgMaxLast(qs) ==
    (CHOOSE i \in DOMAIN qs :
        /\ qs[i] = MaxOf(qs)
        /\ \A j \in DOMAIN qs : j > i => qs[j] < MaxOf(qs)) - 1

\* torch.argmax over the action values, as an action index from 0.
ArgMax(qs) ==
    (CHOOSE i \in DOMAIN qs :
        /\ qs[i] = MaxOf(qs)
        /\ \A j \in DOMAIN qs : j < i => qs[j] < MaxOf(qs)) - 1

\* DQNAgent.act, lines 53-64: the actions the call can return.
AgentAct(a, state, explore) ==
    IF explore /\ epsilon[a] > 0
    THEN 0..(ActionDim - 1)
    ELSE {ArgMax(QNetwork(q_params[a], SumSeq(state)))}

\* Lines 318-322: the state_info act_with_coordination publishes.
CoordStateInfo(state, intended_action) ==
    [queue |-> SubSeq(state, 1, QueueDim),
     current_phase |-> state[9] * 8,
     intended_action |-> intended_action]

\* Lines 127-131: the state_info act publishes.
ActStateInfo(state, now) ==
    [queue |-> SubSeq(state, 1, QueueDim), full_state |-> state, timestamp |-> now]

\* send_state, lines 45-50: the message handed to publisher.send_json.
StateUpdate(sender, now, state_info) ==
    [sender |-> sender, timestamp |-> now, data |-> state_info,
     type |-> "state_update"]

\* publisher.send_json on an open socket: a copy for every subscriber that is
\* connected and has room; a PUB socket drops the rest.
Published(a, message) ==
    [b \in Agents |->
        IF a \in NeighborsOf(b) /\ ~closed[b] /\ Len(in_flight[b]) < MaxInFlight
        THEN Append(in_flight[b], message) ELSE in_flight[b]]

Event(ev, a) == [ev |-> ev, agent |-> a]

\* Mutant of AfterAnnounce: each agent selects right after its own publish.
AfterAnnounceInterleaved(fn, i) == [pc |-> "select", i |-> i]

\* Where the call goes after agent i's publish: the next agent of the first
\* loop, then the sleep of line 328 (act has none) and the second loop.
AfterAnnounce(fn, i) ==
    IF i < NumAgents THEN [pc |-> "announce", i |-> i + 1]
    ELSE IF fn = "act_with_coordination" THEN [pc |-> "sleep", i |-> 1]
    ELSE [pc |-> "select", i |-> 1]

\* Where the call goes after agent i's action: the next agent, then return.
AfterSelect(i) ==
    IF i < NumAgents THEN [pc |-> "select", i |-> i + 1]
    ELSE [pc |-> "returned", i |-> 1]

\* The calls made: act(state, training_mode=True) by the trainer
\* (main.py:105) and act_with_coordination(state, training_mode=False) by the
\* executor (executor.py:146-149).
Calls ==
    { [fn |-> "act", training_mode |-> TRUE],
      [fn |-> "act_with_coordination", training_mode |-> FALSE] }

coordFrame == UNCHANGED <<trainVars, commVars, mixVars, loadVars, sampleVars, tdVars,
                          runVars, lateVars>>

\* The caller passes the environment's state to act (main.py:105) or to
\* act_with_coordination (executor.py:146).
CoordCall(fn, v, training_mode) ==
    /\ co_pc \in {"idle", "returned", "raised"}
    /\ cycle < MaxCycles
    /\ cycle' = cycle + 1
    /\ co_fn' = fn
    /\ co_states' = [a \in Agents |-> Observation(a, v)]
    /\ co_mode' = training_mode
    /\ co_actions' = << >>
    /\ co_enhanced' = << >>
    /\ co_log' = << >>
    /\ co_failed' = FALSE
    /\ co_i' = 1
    /\ co_pc' = IF fn = "act" /\ ~communication_enabled THEN "select" ELSE "announce"
    /\ UNCHANGED <<previous_actions, communication_enabled, in_flight, mailbox, closed>>
    /\ coordFrame

\* Mutant of IntentExplore: the provisional action explores as the final one.
IntentExploreAsFinal == co_mode

\* Line 315: the provisional action is asked for with explore=False.
IntentExplore == FALSE

\* One pass of the first loop: lines 308-325 of act_with_coordination, lines
\* 123-135 of act.  send_json on a closed socket raises; act catches it
\* (lines 132-135), act_with_coordination does not (line 325).
Announce ==
    /\ co_pc = "announce"
    /\ LET i == co_i
           state == co_states[i]
           intended_action ==
               CHOOSE x \in AgentAct(i, state \o Zeros(NeighborFeatureDim),
                                      IntentExplore) : TRUE
           state_info == IF co_fn = "act_with_coordination"
                         THEN CoordStateInfo(state, intended_action)
                         ELSE ActStateInfo(state, cycle)
           next == AfterAnnounce(co_fn, i)
       IN  IF ~closed[i]
           THEN /\ in_flight' = Published(i, StateUpdate(AgentIds[i], cycle, state_info))
                /\ co_log' = Append(co_log, Event("publish", i))
                /\ co_pc' = next.pc
                /\ co_i' = next.i
                /\ UNCHANGED co_failed
           ELSE /\ co_failed' = TRUE
                /\ IF co_fn = "act"
                   THEN co_pc' = next.pc /\ co_i' = next.i
                   ELSE co_pc' = "raised" /\ co_i' = i
                /\ UNCHANGED <<in_flight, co_log>>
    /\ UNCHANGED <<co_fn, co_states, co_mode, co_actions, co_enhanced,
                   previous_actions, communication_enabled, mailbox, closed, cycle>>
    /\ coordFrame

\* time.sleep(0.01), line 328
Sleep ==
    /\ co_pc = "sleep"
    /\ co_pc' = "select"
    /\ co_i' = 1
    /\ UNCHANGED <<co_fn, co_states, co_mode, co_actions, co_enhanced, co_log,
                   co_failed, previous_actions, communication_enabled, in_flight,
                   mailbox, closed, cycle>>
    /\ coordFrame

\* One pass of the second loop: lines 331-340 of act_with_coordination
\* (get_enhanced_state drains the mailbox), lines 138-148 of act
\* (receive_messages drains it when communication is enabled); after the last
\* agent the actions are returned.
Select ==
    /\ co_pc = "select"
    /\ LET i == co_i
           drains == co_fn = "act_with_coordination" \/ communication_enabled
           observed == IF co_fn = "act_with_coordination"
                       THEN EnhancedState(co_states[i], mailbox[i])
                       ELSE co_states[i]
           next == AfterSelect(i)
       IN  /\ mailbox' = IF drains THEN [mailbox EXCEPT ![i] = << >>] ELSE mailbox
           /\ co_enhanced' = co_enhanced @@ (i :> observed)
           /\ \E action \in AgentAct(i, observed, co_mode) :
                /\ co_actions' = co_actions @@ (i :> action)
                /\ previous_actions' =
                       IF co_fn = "act_with_coordination"
                       THEN [previous_actions EXCEPT ![i] = action]
                       ELSE previous_actions
           /\ co_log' = co_log \o (IF drains THEN <<Event("drain", i)>> ELSE << >>)
                               \o <<Event("action", i)>>
           /\ co_pc' = next.pc
           /\ co_i' = next.i
    /\ UNCHANGED <<co_fn, co_states, co_mode, co_failed, communication_enabled,
                   in_flight, closed, cycle>>
    /\ coordFrame

\* Agent a's receiver thread takes a message off its subscriber socket and
\* stores it (communication.py:88-96).
Arrive(a) ==
    /\ ~closed[a]
    /\ in_flight[a] # << >>
    /\ mailbox' = [mailbox EXCEPT ![a] = MailboxStore(mailbox[a], Head(in_flight[a]))]
    /\ in_flight' = [in_flight EXCEPT ![a] = Tail(in_flight[a])]
    /\ UNCHANGED <<co_pc, co_i, co_fn, co_states, co_mode, co_actions, co_enhanced,
                   co_log, co_failed, previous_actions, communication_enabled,
                   closed, cycle>>
    /\ coordFrame

\* A published message is lost on the way to agent a.
Drop(a) ==
    /\ in_flight[a] # << >>
    /\ in_flight' = [in_flight EXCEPT ![a] = Tail(in_flight[a])]
    /\ UNCHANGED <<co_pc, co_i, co_fn, co_states, co_mode, co_actions, co_enhanced,
                   co_log, co_failed, previous_actions, communication_enabled,
                   mailbox, closed, cycle>>
    /\ coordFrame

\* AgentCommunication.close(), lines 111-116: the sockets of agent a are closed.
Close(a) ==
    /\ ~closed[a]
    /\ closed' = [closed EXCEPT ![a] = TRUE]
    /\ in_flight' = [in_flight EXCEPT ![a] = << >>]
    /\ UNCHANGED <<co_pc, co_i, co_fn, co_states, co_mode, co_actions, co_enhanced,
                   co_log, co_failed, previous_actions, communication_enabled,
                   mailbox, cycle>>
    /\ coordFrame

CoordIdle ==
    /\ co_pc = "idle"
    /\ co_i = 1
    /\ co_fn = "none"
    /\ co_states = << >>
    /\ co_mode = FALSE
    /\ co_actions = << >>
    /\ co_enhanced = << >>
    /\ co_log = << >>
    /\ co_failed = FALSE
    /\ previous_actions = [a \in Agents |-> 0]
    /\ communication_enabled = TRUE
    /\ in_flight = [a \in Agents |-> << >>]
    /\ mailbox = [a \in Agents |-> << >>]
    /\ closed = [a \in Agents |-> FALSE]
    /\ cycle = 0

ExtIdle == LoadIdle /\ CoordIdle /\ SampleIdle /\ TargetIdle /\ RunIdle

(* ----------------------- DQNAgent.act as a call ------------------------ *)
NoAct == [agent |-> 0, state |-> << >>, explore |-> FALSE, action |-> 0]

\* agent.act(state, explore)
Act(a, state, explore) ==
    /\ \E action \in AgentAct(a, state, explore) :
         act_call' = [agent |-> a, state |-> state, explore |-> explore,
                      action |-> action]
    /\ UNCHANGED trainVars

ActIdle == act_call = NoAct

\* Epsilon values an agent holds: 0.0 as the executor sets it
\* (executor.py:108), the floor 0.05, and 1.0 at the start of training.
EpsilonValues == {0, 50, Scale}

(* ------------------- the receive loop, iteration by iteration ---------- *)
Outcome(ts, outcome) == [ts |-> ts, outcome |-> outcome]

Timeouts(log) == Cardinality({i \in 1..Len(log) : log[i].outcome = "timeout"})

ListenIdle == rx_log = << >>

ListenFrame == UNCHANGED <<trainVars, mixVars, extVars, actVars, taVars, ftVars,
                           execVars>>

\* The main thread is caller 1 of get_neighbor_messages.
MainThread == 1

ListenDeliver == Deliver /\ UNCHANGED rx_log /\ ListenFrame
ListenReceive == RxReceive /\ UNCHANGED rx_log /\ ListenFrame
ListenAcquire == RxAcquire /\ UNCHANGED rx_log /\ ListenFrame
ListenStore ==
    /\ RxStore
    /\ rx_log' = Append(rx_log, Outcome(rx_msg.timestamp,
                     IF WellFormed(rx_msg) THEN "stored" ELSE "error"))
    /\ ListenFrame
ListenTimeout ==
    /\ Timeouts(rx_log) < MaxTimeouts
    /\ RxTimeout
    /\ rx_log' = Append(rx_log, Outcome(0, "timeout"))
    /\ ListenFrame
ListenCall == CallDrain(MainThread) /\ UNCHANGED rx_log /\ ListenFrame
ListenDrainAcquire == DrainAcquire(MainThread) /\ UNCHANGED rx_log /\ ListenFrame
ListenDrain ==
    /\ \/ DrainCopy(MainThread)
       \/ DrainClear(MainThread)
       \/ DrainReturn(MainThread)
    /\ UNCHANGED rx_log
    /\ ListenFrame

(* ------------- TrafficActions (utils/traffic_actions.py) --------------- *)
PhaseCount == 8
DirectionCount == 4
EXTEND_CURRENT_PHASE == 4
TrafficActionIds == 0..EXTEND_CURRENT_PHASE
NoPhase == -1

GREEN_PHASES == (0 :> 0) @@ (1 :> 2) @@ (2 :> 4) @@ (3 :> 6)

\* Mutant of YELLOW_PHASES: a direction's entry is the next direction's green.
YELLOW_PHASES_NEXT_GREEN == (0 :> 2) @@ (1 :> 4) @@ (2 :> 6) @@ (3 :> 0)

YELLOW_PHASES == (0 :> 1) @@ (1 :> 3) @@ (2 :> 5) @@ (3 :> 7)

get_current_direction(current_phase) ==
    IF current_phase \in {0, 1} THEN 0
    ELSE IF current_phase \in {2, 3} THEN 1
    ELSE IF current_phase \in {4, 5} THEN 2
    ELSE IF current_phase \in {6, 7} THEN 3
    ELSE 1

NoCommand == [returned |-> NoPhase, set_phase |-> NoPhase, duration |-> <<"none", 0>>]

\* execute_action(tl_id, action, current_phase): the phase returned, the phase
\* passed to setPhase (if any) and what is done to the phase duration.
execute_action(action, current_phase) ==
    LET current_dir == get_current_direction(current_phase)
        green == current_phase \in {0, 2, 4, 6}
        keep == [returned |-> current_phase, set_phase |-> NoPhase,
                 duration |-> <<"none", 0>>]
        extend == [keep EXCEPT !.duration = <<"add", 5>>]
    IN  IF action < 4
        THEN IF action = current_dir
             THEN IF green THEN extend ELSE keep
             ELSE IF green
             THEN [returned |-> YELLOW_PHASES[current_dir],
                   set_phase |-> YELLOW_PHASES[current_dir],
                   duration |-> <<"set", 3>>]
             ELSE IF current_phase \in {1, 3, 5, 7}
             THEN [returned |-> GREEN_PHASES[action],
                   set_phase |-> GREEN_PHASES[action],
                   duration |-> <<"set", 10>>]
             ELSE keep
        ELSE IF action = 4
        THEN IF green THEN extend ELSE keep
        ELSE keep

NoActionCall == [action |-> NoPhase, current_phase |-> NoPhase, result |-> NoCommand]

ActionsIdle == tl_phase = 0 /\ ta_call = NoActionCall

\* SumoEnv.step, lines 219-222, for one light: the current phase is read from
\* the simulator and execute_action is called on it.
ExecuteAction(action) ==
    LET r == execute_action(action, tl_phase)
    IN  /\ ta_call' = [action |-> action, current_phase |-> tl_phase, result |-> r]
        /\ tl_phase' = IF r.set_phase = NoPhase THEN tl_phase ELSE r.set_phase

\* traci.simulationStep(): when the phase's duration has run out the light's
\* program goes on to its next phase.
SimulationStep ==
    /\ tl_phase' = (tl_phase + 1) % PhaseCount
    /\ UNCHANGED ta_call

(* ------ FixedTimeController (normal_traffic/fixed_time_controller.py) --- *)
TlIds == {"J1_center", "J2_center"}
GreenTime == 30
YellowTime == 3

FixedTimeIdle ==
    /\ ft_running = FALSE
    /\ ft_current_phase = [tl \in TlIds |-> 0]
    /\ ft_cycle_position = [tl \in TlIds |-> 0]
    /\ ft_elapsed = [tl \in TlIds |-> 0]
    /\ ft_commanded = [tl \in TlIds |-> NoPhase]

\* Lines 59-65: traci.start, then every light is set to phase 0 and its
\* phase_start_time to the simulation time.  current_phase and
\* cycle_position are not assigned.
StartEffect ==
    /\ ft_running' = TRUE
    /\ ft_commanded' = [tl \in TlIds |-> 0]
    /\ ft_elapsed' = [tl \in TlIds |-> 0]
    /\ UNCHANGED <<ft_current_phase, ft_cycle_position>>

FtStart == ~ft_running /\ StartEffect

\* reset(), lines 84-90: close, sleep, start.
FtReset == ft_running /\ StartEffect

\* Whether update_lights switches light tl (lines 101-103, 112-113).
SwitchDue(tl) ==
    IF ft_current_phase[tl] \in {0, 2, 4, 6}
    THEN ft_elapsed[tl] >= GreenTime
    ELSE ft_elapsed[tl] >= YellowTime

\* step(), lines 270-295: update_lights (lines 92-124), then one simulation
\* step of one second.
FtStep ==
    /\ ft_running
    /\ ft_current_phase' =
           [tl \in TlIds |->
               IF ~SwitchDue(tl) THEN ft_current_phase[tl]
               ELSE IF ft_current_phase[tl] \in {0, 2, 4, 6}
               THEN ft_current_phase[tl] + 1
               ELSE (ft_current_phase[tl] + 1) % 8]
    /\ ft_commanded' =
           [tl \in TlIds |->
               IF SwitchDue(tl) THEN ft_current_phase'[tl] ELSE ft_commanded[tl]]
    /\ ft_cycle_position' =
           [tl \in TlIds |->
               IF SwitchDue(tl) /\ ft_current_phase[tl] \in {1, 3, 5, 7}
               THEN (ft_cycle_position[tl] + 1) % 4
               ELSE ft_cycle_position[tl]]
    /\ ft_elapsed' =
           [tl \in TlIds |-> IF SwitchDue(tl) THEN 1 ELSE ft_elapsed[tl] + 1]
    /\ UNCHANGED ft_running

(* ---------- MARLExecutor.run (marl_execution/executor.py) -------------- *)
ExecutorIdle ==
    /\ ex_pc = "idle"
    /\ ex_max_steps = 0
    /\ env_open = FALSE
    /\ chan_open = [a \in Agents |-> FALSE]
    /\ ex_stored = [a \in Agents |-> 0]

\* One iteration of run_single_episode's loop as run() sees it: the loop goes
\* on, or Ctrl+C makes run_single_episode return (lines 182-184), or another
\* exception leaves run_single_episode and run.
ExecutorCycle ==
    /\ ex_pc = "episode"
    /\ ExecIteration
    /\ ex_pc' = CASE run_pc' = "interrupted" -> "close_env"
                  [] run_pc' = "crashed" -> "raised"
                  [] OTHER -> "episode"
    /\ UNCHANGED <<ex_max_steps, env_open, chan_open, ex_stored>>

\* run(), lines 232-234: self.env.close(), a print, and run returns.
ExecutorCloseEnv ==
    /\ ex_pc = "close_env"
    /\ env_open' = FALSE
    /\ ex_pc' = "returned"
    /\ UNCHANGED <<ex_max_steps, chan_open, ex_stored>>
    /\ UNCHANGED runVars

\* Agent a's receiver thread stores a message (communication.py:88-96); the
\* thread runs as long as the process.
ExecutorStore(a) ==
    /\ chan_open[a]
    /\ ex_stored[a] < MaxMsgs
    /\ ex_stored' = [ex_stored EXCEPT ![a] = @ + 1]
    /\ UNCHANGED <<ex_pc, ex_max_steps, env_open, chan_open>>
    /\ UNCHANGED runVars

LateIdle == ActIdle /\ ListenIdle /\ ActionsIdle /\ FixedTimeIdle /\ ExecutorIdle

(* ---------------------------- specifications ---------------------------- *)
vars == <<trainVars, commVars, mixVars, extVars, lateVars>>

Init == TrainInit /\ CommInit /\ MixerIdle /\ ExtIdle /\ LateIdle

Next ==
    \/ Remember /\ UNCHANGED <<commVars, mixVars, extVars, lateVars>>
    \/ TrainStep /\ UNCHANGED <<commVars, mixVars, extVars, lateVars>>
    \/ EpisodeEnd /\ UNCHANGED <<commVars, mixVars, extVars, lateVars>>

Spec == Init /\ [][Next]_vars

CommFrame ==
    /\ UNCHANGED <<trainVars, mixVars, extVars, lateVars>>

InitComm ==
    /\ CommInit
    /\ MixerIdle
    /\ ExtIdle
    /\ LateIdle
    /\ capacity = 1 /\ buffer = << >> /\ added = << >>
    /\ batch_size = 1 /\ target_update_freq = 1 /\ training_step = 0
    /\ epsilon_start = Scale /\ epsilon_min = Scale /\ epsilon_decay = Scale
    /\ epsilon = [a \in Agents |-> Scale]
    /\ q_params = [a \in Agents |-> 0] /\ target_params = [a \in Agents |-> 0]
    /\ last_call = NoCall /\ calls = 0 /\ data_calls = 0 /\ trained_calls = 0
    /\ episodes = 0

NextComm ==
    \/ Deliver /\ CommFrame
    \/ RxReceive /\ CommFrame
    \/ RxAcquire /\ CommFrame
    \/ RxStore /\ CommFrame
    \/ \E c \in Callers : CallDrain(c) /\ CommFrame
    \/ \E c \in Callers : DrainAcquire(c) /\ CommFrame
    \/ \E c \in Callers : DrainCopy(c) /\ CommFrame
    \/ \E c \in Callers : DrainClear(c) /\ CommFrame
    \/ \E c \in Callers : DrainReturn(c) /\ CommFrame

SpecComm == InitComm /\ [][NextComm]_vars

\* The main thread (caller 1) builds enhanced observations while the receive
\* loop runs.
NextEnhanced ==
    \/ Deliver /\ CommFrame
    \/ RxReceive /\ CommFrame
    \/ RxAcquire /\ CommFrame
    \/ RxStore /\ CommFrame
    \/ CallEnhanced(1) /\ CommFrame
    \/ DrainAcquire(1) /\ CommFrame
    \/ DrainCopy(1) /\ CommFrame
    \/ DrainClear(1) /\ CommFrame
    \/ DrainReturn(1) /\ CommFrame

SpecEnhanced == InitComm /\ [][NextEnhanced]_vars

InitMixer ==
    /\ MixerInit
    /\ CommInit
    /\ ExtIdle
    /\ LateIdle
    /\ capacity = 1 /\ buffer = << >> /\ added = << >>
    /\ batch_size = 1 /\ target_update_freq = 1 /\ training_step = 0
    /\ epsilon_start = Scale /\ epsilon_min = Scale /\ epsilon_decay = Scale
    /\ epsilon = [a \in Agents |-> Scale]
    /\ q_params = [a \in Agents |-> 0] /\ target_params = [a \in Agents |-> 0]
    /\ last_call = NoCall /\ calls = 0 /\ data_calls = 0 /\ trained_calls = 0
    /\ episodes = 0

NextMixer == MixerCall /\ UNCHANGED <<trainVars, commVars, extVars, lateVars>>

SpecMixer == InitMixer /\ [][NextMixer]_vars

\* A models directory as found, then saves, loads and episode ends.
InitLoad ==
    /\ TrainInit
    /\ CoordIdle
    /\ SampleIdle
    /\ TargetIdle
    /\ RunIdle
    /\ LateIdle
    /\ capacity = 1 /\ batch_size = 1 /\ target_update_freq = 1
    /\ epsilon_start = Scale /\ epsilon_decay = 500
    /\ CommInit
    /\ MixerIdle
    /\ files \in Directories
    /\ opt_state = [a \in Agents |-> 0]
    /\ agent_step = [a \in Agents |-> 0]
    /\ load_result = "none"
    /\ pre_load = << >>
    /\ at_save = NotSaved
    /\ last_op = "none"
    /\ net_shape \in Shapes

LoadFrame == UNCHANGED <<commVars, mixVars, coordVars, sampleVars, tdVars, runVars,
                         lateVars>>

NextLoad ==
    \/ LoadModels /\ LoadFrame
    \/ SaveModels /\ LoadFrame
    \/ EpisodeEndLoad /\ LoadFrame
    \/ \E shape \in Shapes : BuildSystem(shape) /\ LoadFrame

SpecLoad == InitLoad /\ [][NextLoad]_vars

\* A system as constructed (lines 18-61); enable_communication is the
\* config's choice.
InitCoord ==
    /\ TrainIdle
    /\ CommInit
    /\ MixerIdle
    /\ LoadIdle
    /\ SampleIdle
    /\ TargetIdle
    /\ RunIdle
    /\ LateIdle
    /\ co_pc = "idle" /\ co_i = 1 /\ co_fn = "none" /\ co_states = << >>
    /\ co_mode = FALSE /\ co_actions = << >> /\ co_enhanced = << >>
    /\ co_log = << >> /\ co_failed = FALSE
    /\ previous_actions = [a \in Agents |-> 0]
    /\ communication_enabled \in BOOLEAN
    /\ in_flight = [a \in Agents |-> << >>]
    /\ mailbox = [a \in Agents |-> << >>]
    /\ closed = [a \in Agents |-> FALSE]
    /\ cycle = 0

CycleSteps ==
    \/ \E call \in Calls, v \in ObservationKinds :
           CoordCall(call.fn, v, call.training_mode)
    \/ Announce
    \/ Sleep
    \/ Select

NextCoord ==
    \/ CycleSteps
    \/ \E a \in Agents : Arrive(a)
    \/ \E a \in Agents : Drop(a)
    \/ \E a \in Agents : Close(a)

SpecCoord == InitCoord /\ [][NextCoord]_vars

\* act_with_coordination in training and in execution mode, on agents with
\* any online parameters and any epsilon, communication enabled.
InitAnnounce ==
    /\ capacity = 1 /\ buffer = << >> /\ added = << >>
    /\ batch_size = 1 /\ target_update_freq = 1 /\ training_step = 0
    /\ epsilon_start = Scale /\ epsilon_min = 0 /\ epsilon_decay = Scale
    /\ \E e \in {0, Scale} : epsilon = [a \in Agents |-> e]
    /\ \E p \in {0, MaxParam} : q_params = [a \in Agents |-> (p + a) % 3]
    /\ target_params = q_params
    /\ last_call = NoCall /\ calls = 0 /\ data_calls = 0 /\ trained_calls = 0
    /\ episodes = 0
    /\ CommInit /\ MixerIdle /\ ExtIdle /\ LateIdle

NextAnnounce ==
    \/ \E v \in ObservationKinds, training_mode \in BOOLEAN :
           CoordCall("act_with_coordination", v, training_mode)
    \/ Announce
    \/ Sleep
    \/ Select
    \/ \E a \in Agents : Arrive(a)

SpecAnnounce == InitAnnounce /\ [][NextAnnounce]_vars

\* Total communication loss: every publish succeeds and no message is
\* delivered.
NextLoss ==
    \/ CycleSteps
    \/ \E a \in Agents : Drop(a)

SpecLoss == InitCoord /\ [][NextLoss]_vars

\* A buffer of some capacity, filled by remember and read by sample.
InitSample ==
    /\ TrainInit
    /\ batch_size = 1 /\ target_update_freq = 1
    /\ epsilon_start = Scale /\ epsilon_decay = 500
    /\ CommInit
    /\ MixerIdle
    /\ ExtIdle
    /\ LateIdle

NextSample ==
    \/ Remember /\ UNCHANGED <<commVars, mixVars, extVars, lateVars>>
    \/ \E k \in 0..MaxSample :
          Sample(k) /\ UNCHANGED <<commVars, mixVars, loadVars, coordVars, tdVars, runVars,
                                   lateVars>>

SpecSample == InitSample /\ [][NextSample]_vars

\* Sampled batches; the target networks hold any parameters.
InitTarget ==
    /\ CommInit /\ MixerIdle
    /\ LoadIdle /\ CoordIdle /\ SampleIdle /\ RunIdle /\ LateIdle
    /\ td_batch \in Batches /\ td_out = NoTarget
    /\ capacity = 1 /\ buffer = << >> /\ added = << >>
    /\ batch_size = 1 /\ target_update_freq = 1 /\ training_step = 0
    /\ epsilon_start = Scale /\ epsilon_min = Scale /\ epsilon_decay = Scale
    /\ epsilon = [a \in Agents |-> Scale]
    /\ q_params = [a \in Agents |-> 0]
    /\ target_params \in [Agents -> 0..MaxParam]
    /\ last_call = NoCall /\ calls = 0 /\ data_calls = 0 /\ trained_calls = 0
    /\ episodes = 0

NextTarget ==
    ComputeTarget /\ UNCHANGED <<commVars, mixVars, loadVars, coordVars, sampleVars,
                                 runVars, lateVars>>

SpecTarget == InitTarget /\ [][NextTarget]_vars

\* A training run or an execution run is started.
InitRun ==
    /\ TrainIdle
    /\ CommInit
    /\ MixerIdle
    /\ LoadIdle /\ CoordIdle /\ SampleIdle /\ TargetIdle /\ LateIdle
    /\ run_kind \in {"train", "execute"}
    /\ run_pc = "running"
    /\ num_episodes \in 1..MaxRunEpisodes
    /\ save_frequency \in 1..MaxFreq
    /\ episode = 0
    /\ episode_rewards = << >>
    /\ exec_iters = 0
    /\ reward_history = << >>
    /\ persisted = NothingPersisted

RunFrame == UNCHANGED <<trainVars, commVars, mixVars, loadVars, coordVars,
                        sampleVars, tdVars, lateVars>>

NextRun ==
    \/ TrainIteration /\ RunFrame
    \/ ExecIteration /\ RunFrame

SpecRun == InitRun /\ [][NextRun]_vars

\* Agents with any online parameters and any epsilon.
InitAct ==
    /\ capacity = 1 /\ buffer = << >> /\ added = << >>
    /\ batch_size = 1 /\ target_update_freq = 1 /\ training_step = 0
    /\ epsilon_start = Scale /\ epsilon_min = 0 /\ epsilon_decay = Scale
    /\ \E e \in EpsilonValues : epsilon = [a \in Agents |-> e]
    /\ q_params \in [Agents -> 0..MaxParam]
    /\ target_params = q_params
    /\ last_call = NoCall /\ calls = 0 /\ data_calls = 0 /\ trained_calls = 0
    /\ episodes = 0
    /\ CommInit /\ MixerIdle /\ ExtIdle
    /\ act_call = NoAct
    /\ ListenIdle /\ ActionsIdle /\ FixedTimeIdle /\ ExecutorIdle

NextAct ==
    \E a \in Agents, b \in Agents, v \in ObservationKinds, explore \in BOOLEAN :
        Act(a, Observation(b, v), explore)
            /\ UNCHANGED <<commVars, mixVars, extVars, listenVars, taVars, ftVars,
                           execVars>>

SpecAct == InitAct /\ [][NextAct]_vars

\* The receive thread and the main thread of one agent's channel.
NextListen ==
    \/ ListenDeliver
    \/ ListenReceive
    \/ ListenAcquire
    \/ ListenStore
    \/ ListenTimeout
    \/ ListenCall
    \/ ListenDrainAcquire
    \/ ListenDrain

\* The receive loop is a daemon thread that runs as long as the process; a
\* thread inside a `with self.lock` block runs on to its end, and the receive
\* thread waiting for the lock gets it after one of the main thread's
\* releases (the main thread takes the lock once per decision cycle).
FairListen ==
    /\ WF_vars(ListenReceive)
    /\ SF_vars(ListenAcquire)
    /\ WF_vars(ListenStore)
    /\ WF_vars(ListenDrain)

SpecListen == InitComm /\ [][NextListen]_vars /\ FairListen

\* One traffic light under SumoEnv.step, from any phase of its program.
InitActions ==
    /\ TrainIdle /\ CommInit /\ MixerIdle /\ ExtIdle
    /\ ActIdle /\ ListenIdle /\ FixedTimeIdle /\ ExecutorIdle
    /\ tl_phase \in 0..(PhaseCount - 1)
    /\ ta_call = NoActionCall

ActionsFrame == UNCHANGED <<trainVars, commVars, mixVars, extVars, actVars,
                            listenVars, ftVars, execVars>>

NextActions ==
    \/ \E action \in TrafficActionIds : ExecuteAction(action) /\ ActionsFrame
    \/ SimulationStep /\ ActionsFrame

SpecActions == InitActions /\ [][NextActions]_vars

\* A FixedTimeController as constructed (lines 16-44).
InitFixedTime ==
    /\ TrainIdle /\ CommInit /\ MixerIdle /\ ExtIdle
    /\ ActIdle /\ ListenIdle /\ ActionsIdle /\ ExecutorIdle
    /\ FixedTimeIdle

FixedTimeFrame == UNCHANGED <<trainVars, commVars, mixVars, extVars, actVars,
                              listenVars, taVars, execVars>>

NextFixedTime ==
    \/ FtStart /\ FixedTimeFrame
    \/ FtStep /\ FixedTimeFrame
    \/ FtReset /\ FixedTimeFrame

SpecFixedTime == InitFixedTime /\ [][NextFixedTime]_vars

\* MARLExecutor.run has called run_single_episode(max_steps); the simulator
\* is started and every agent's channel is open (executor.py:57-81).
InitExecutor ==
    /\ TrainIdle /\ CommInit /\ MixerIdle
    /\ LoadIdle /\ CoordIdle /\ SampleIdle /\ TargetIdle
    /\ ActIdle /\ ListenIdle /\ ActionsIdle /\ FixedTimeIdle
    /\ run_kind = "execute" /\ run_pc = "running"
    /\ num_episodes = 1 /\ save_frequency = 1
    /\ episode = 0 /\ episode_rewards = << >>
    /\ exec_iters = 0 /\ reward_history = << >>
    /\ persisted = NothingPersisted
    /\ ex_pc = "episode"
    /\ ex_max_steps \in 1..(MaxSteps - 1)
    /\ env_open = TRUE
    /\ chan_open = [a \in Agents |-> TRUE]
    /\ ex_stored = [a \in Agents |-> 0]

ExecutorFrame == UNCHANGED <<trainVars, commVars, mixVars, loadVars, coordVars,
                             sampleVars, tdVars, actVars, listenVars, taVars, ftVars>>

NextExecutor ==
    \/ ExecutorCycle /\ ExecutorFrame
    \/ ExecutorCloseEnv /\ ExecutorFrame
    \/ \E a \in Agents : ExecutorStore(a) /\ ExecutorFrame

SpecExecutor == InitExecutor /\ [][NextExecutor]_vars

(* ================================ claims ================================ *)
RECURSIVE DecayTimes(_, _)
DecayTimes(eps, k) ==
    IF k = 0 THEN eps
    ELSE DecayEpsilon(DecayTimes(eps, k - 1), epsilon_min, epsilon_decay)

\* C1: the buffer never holds more than capacity transitions, and it is
\* exactly the most recently added min(capacity, N) transitions in insertion
\* order; so after N > capacity adds its length is capacity.
C1_BufferKeepsMostRecent ==
    LET n == Len(added)
        k == IF n > capacity THEN capacity ELSE n
    IN  /\ BufferLen(buffer) <= capacity
        /\ BufferLen(buffer) = k
        /\ buffer = SubSeq(added, n - k + 1, n)

\* C1 witness: more than capacity adds into a buffer of capacity >= 2 whose
\* surviving entries differ (their order is observable), the evicted one too.
C1_Witness ==
    /\ capacity >= 2
    /\ Len(added) > capacity
    /\ buffer[1] # buffer[2]
    /\ added[1] # buffer[1]

\* C2: what a drain returns holds, for every sender that delivered since the
\* previous drain, exactly one entry, and it carries the payload of the last
\* message that sender delivered.
C2_MailboxOverwrite ==
    \A c \in Callers : c_result[c].kind # "none" =>
        \A x \in Senders :
            LET got == { i \in 1..Len(c_result[c].messages) :
                            c_result[c].messages[i].sender = x }
                sent == c_result[c].arrived[x]
            IN  IF sent = << >> THEN got = {}
                ELSE /\ Cardinality(got) = 1
                     /\ \A i \in got :
                          /\ c_result[c].messages[i].data = sent[Len(sent)].data
                          /\ c_result[c].messages[i].timestamp = sent[Len(sent)].timestamp

\* C2 witness: a drain returned after one sender had delivered two messages
\* with different payloads.
C2_Witness ==
    \E c \in Callers, x \in Senders :
        /\ c_result[c].kind = "drain"
        /\ Len(c_result[c].arrived[x]) >= 2
        /\ c_result[c].arrived[x][1].data # c_result[c].arrived[x][2].data

InMailbox(t) == \E i \in 1..Len(received_messages) : received_messages[i].timestamp = t
InCopy(t) ==
    \E c \in Callers :
        /\ c_pc[c] \in {"clear", "release"}
        /\ \E i \in 1..Len(c_local[c]) : c_local[c][i].timestamp = t

\* C3: under every interleaving of the receive loop with the drains, a stored
\* message is returned by at most one drain; once it is out of the mailbox and
\* of every drain in progress it was either returned by exactly one drain or
\* overwritten by a newer message of its sender, never both; and a drain with
\* no arrival since the previous drain returns an empty map.
C3_DrainAtomic ==
    /\ \A t \in stored :
          /\ returned[t] <= 1
          /\ ~(returned[t] = 1 /\ t \in overwritten)
          /\ (InMailbox(t) \/ InCopy(t) \/ returned[t] = 1 \/ t \in overwritten)
    /\ \A c \in Callers :
          (c_result[c].kind # "none" /\ c_result[c].arrived = NoArrivals)
              => c_result[c].messages = << >>

\* C3 witness: both callers have drained, one message was returned, another
\* was overwritten, and a drain that saw no arrival has returned.
C3_Witness ==
    /\ \A c \in Callers : c_result[c].kind = "drain"
    /\ \E t \in stored : returned[t] = 1
    /\ overwritten # {}
    /\ \E c \in Callers : c_result[c].arrived = NoArrivals
    /\ \E c \in Callers : c_pc[c] = "acquire" /\ lock # Free

\* C4: every enhanced observation is 10 values longer than its base
\* observation, whatever the drained messages were.
C4_EnhancedLength ==
    \A c \in Callers : c_result[c].kind = "enhanced" =>
        Len(c_result[c].enhanced) = Len(c_result[c].base) + NeighborFeatureDim

\* C4 witness: an enhanced observation built from two neighbor messages whose
\* blocks exceed 10 values.
C4_Witness ==
    \E c \in Callers :
        /\ c_result[c].kind = "enhanced"
        /\ Len(c_result[c].messages) = 2
        /\ Len(NeighborInfo(c_result[c].messages)) > NeighborFeatureDim

C6_EpsilonDecaysOncePerTrainedStep ==
    \A a \in Agents : epsilon[a] = DecayTimes(epsilon_start, trained_calls)

\* C7: no step of the training loop raises an agent's epsilon, and epsilon
\* never drops below epsilon_min.
C7_EpsilonMonotone ==
    [][\A a \in Agents : epsilon'[a] <= epsilon[a] /\ epsilon_min <= epsilon'[a]]_vars

\* C7 witness: after two decays epsilon sits on the floor, below its start.
C7_Witness ==
    /\ episodes >= 2
    /\ \A a \in Agents : epsilon[a] = epsilon_min /\ epsilon[a] < epsilon_start

\* C8 (as claimed): a train_step call on a buffer holding at least batch_size
\* transitions returns a non-negative loss without raising and leaves the
\* buffer as it was.
C8_TrainStepReturnsLoss ==
    [][(calls' = calls + 1 /\ BufferLen(buffer) >= batch_size) =>
          /\ last_call'.kind = "trained"
          /\ last_call'.loss >= 0
          /\ buffer' = buffer]_vars

\* C9: a train_step call below batch_size returns the sentinel (0, 0) and
\* leaves the step counter, every epsilon, the online and target parameters
\* and the buffer unchanged.
C9_NoopBelowBatchSize ==
    [][(calls' = calls + 1 /\ BufferLen(buffer) < batch_size) =>
          /\ last_call' = NoopSentinel
          /\ UNCHANGED <<training_step, epsilon, q_params, target_params, buffer>>]_vars

\* C9 witness: the sentinel was returned on a non-empty buffer, after an
\* episode had already ended.
C9_Witness ==
    /\ last_call = NoopSentinel
    /\ buffer # << >>
    /\ BufferLen(buffer) < batch_size
    /\ episodes >= 1

\* C10 (as claimed): applied to chosen-action values of shape
\* [batch, num_agents] the mixer returns the vector of per-row sums.
C10_MixerAdditivity ==
    (mixer_out # NotCalled /\ mixer_in.rank = 2) =>
        mixer_out = MixerOk(Tensor(1, [b \in 1..Len(mixer_in.v) |->
                                          SumSeq(mixer_in.v[b])]))


(* --- persistence --- *)

CheckpointKeys ==
    {"q_network_state_dict", "target_network_state_dict",
     "optimizer_state_dict", "epsilon", "training_step"}

\* A file DQNAgent.load reads to the end: every key, tensors of the shape
\* the agent's networks have.
Complete(file) ==
    /\ file.kind = "checkpoint"
    /\ CheckpointKeys \subseteq DOMAIN file
    /\ file.shape = net_shape

MissingFiles == {a \in Agents : files[a].kind = "missing"}

\* C11: after load_models on a directory missing exactly one agent's file,
\* the call has returned False and every agent's online parameters, target
\* parameters, optimizer state, epsilon and step counter are what they were
\* when the call was made.
C11_LoadAllOrNothing ==
    (last_op = "load_models" /\ Cardinality(MissingFiles) = 1)
        => /\ load_result = "False"
           /\ AllAgentStates = pre_load

\* C12: load_models returns to its caller with True or False; it returns True
\* exactly when every agent's file exists and loads, and then every agent
\* holds what its file holds.
C12_LoadReturnsFlag ==
    last_op = "load_models"
        => /\ load_result \in {"True", "False"}
           /\ load_result = "True" <=> \A a \in Agents : Complete(files[a])
           /\ load_result = "True"
                => \A a \in Agents :
                       files[a] = Checkpoint(net_shape, q_params[a], target_params[a],
                                             opt_state[a], epsilon[a], agent_step[a])

C12_Witness ==
    /\ last_op = "load_models"
    /\ load_result = "False"
    /\ MissingFiles = {}
    /\ \E a \in Agents : ~Complete(files[a])

\* C16: after save_models and then load_models on the same directory by a
\* system with the same agent ids, the
\* load has returned True and every agent's online parameters, target
\* parameters and epsilon, and the system's training_step, equal their
\* values at the time of the save.
C16_SaveLoadRoundTrip ==
    (last_op = "load_models" /\ at_save.saved)
        => /\ load_result = "True"
           /\ \A a \in Agents :
                /\ q_params[a] = at_save.agents[a].q
                /\ target_params[a] = at_save.agents[a].t
                /\ epsilon[a] = at_save.agents[a].eps
           /\ training_step = at_save.training_step

(* --- decision cycles --- *)

PublishedBefore(a, k) == \E j \in 1..(k - 1) : co_log[j] = Event("publish", a)

\* C13: within one cycle of act_with_coordination every agent's publish
\* comes before any agent's mailbox drain, and an agent's action comes after
\* that agent's own publish.
C13_CycleOrdering ==
    co_fn = "act_with_coordination"
        => \A k \in 1..Len(co_log) :
               /\ co_log[k].ev = "drain" => \A a \in Agents : PublishedBefore(a, k)
               /\ co_log[k].ev = "action" => PublishedBefore(co_log[k].agent, k)

C13_Witness ==
    /\ co_fn = "act_with_coordination"
    /\ co_pc = "returned"
    /\ Len(co_log) = 3 * NumAgents
    /\ \E a \in Agents : Len(co_enhanced[a]) = 23 /\ co_enhanced[a][14] # 0

TenZeros == <<0, 0, 0, 0, 0, 0, 0, 0, 0, 0>>

C15_PublishFailureSwallowed ==
    co_failed
        => /\ co_pc # "raised"
           /\ co_pc = "returned" => DOMAIN co_actions = Agents

(* --- CentralizedBuffer.sample --- *)

\* No add call was made after the last sample call.
NoAddSince == sample_out.adds = Len(added)

\* C17: a sample(batch_size) call on a buffer of at least batch_size
\* transitions returns batch_size transitions taken from pairwise distinct
\* buffer positions, and the buffer is what it was.
C17_SampleWithoutReplacement ==
    (sample_out.kind # "none" /\ Len(sample_pre) >= sample_out.size)
        => /\ sample_out.kind = "batch"
           /\ Len(sample_out.indices) = sample_out.size
           /\ \A f \in DOMAIN sample_out.batch :
                  Len(sample_out.batch[f]) = sample_out.size
           /\ \A i, j \in 1..sample_out.size :
                  i # j => sample_out.indices[i] # sample_out.indices[j]
           /\ \A i \in 1..sample_out.size :
                  LET e == sample_pre[sample_out.indices[i]]
                  IN  /\ sample_out.indices[i] \in 1..Len(sample_pre)
                      /\ sample_out.batch.states_batch[i] = e.states
                      /\ sample_out.batch.actions_batch[i] = e.actions
                      /\ sample_out.batch.rewards_batch[i] = e.reward
                      /\ sample_out.batch.next_states_batch[i] = e.next_states
                      /\ sample_out.batch.dones_batch[i] = e.done
           /\ NoAddSince => buffer = sample_pre

\* A batch of two equal transitions that sit at two buffer positions.
C17_Witness ==
    /\ sample_out.kind = "batch"
    /\ sample_out.size = 2
    /\ NoAddSince
    /\ sample_pre[1] = sample_pre[2]
    /\ sample_out.indices \in {<<1, 2>>, <<2, 1>>}

\* C18: a sample(batch_size) call on a buffer of fewer than batch_size
\* transitions, the empty buffer included, raises the error of a sample
\* larger than the population, returns no batch, and the buffer is what it was.
C18_SampleInsufficientData ==
    (sample_out.kind # "none" /\ Len(sample_pre) < sample_out.size)
        => /\ sample_out.kind = "raised"
           /\ sample_out.error = "ValueError"
           /\ sample_out.batch = << >>
           /\ NoAddSince => buffer = sample_pre

C18_Witness ==
    /\ sample_out.kind = "raised"
    /\ sample_pre # << >>
    /\ Len(sample_pre) < sample_out.size
    /\ NoAddSince

(* --- the target of train_step --- *)

TeamTargetValue(e) ==
    SumSeq([i \in Agents |-> MaxOf(QNetwork(target_params[i], e.next_states[i]))])

\* C19: the target computed for a batch holds, for every transition, the team
\* reward plus (1 - done) * gamma * the sum over the agents of the target
\* network's maximal action value on the next observation (in thousandths).
C19_TDTarget ==
    td_out.kind # "none"
        => /\ td_out.kind = "target"
           /\ Len(td_out.target) = Len(td_batch)
           /\ \A b \in 1..Len(td_batch) :
                  td_out.target[b] =
                      td_batch[b].reward * Scale
                        + (IF td_batch[b].done THEN 0
                           ELSE Gamma * TeamTargetValue(td_batch[b]))

(* --- the run loops --- *)

Accumulated == IF run_kind = "train" THEN episode_rewards ELSE reward_history

\* C20: when an exception other than the user's interrupt has ended a
\* training or execution run, the metrics accumulated up to then are on disk.
C20_MetricsPersistedOnError ==
    run_pc = "crashed"
        => /\ persisted.written
           /\ persisted.metrics = Accumulated

(* --- DQNAgent.act --- *)

ActionValues == QNetwork(q_params[act_call.agent], SumSeq(act_call.state))

\* C21: an act call returns an action in 0..action_dim-1; without exploring
\* (and with epsilon 0) it is the first index at which the online network's
\* action values are maximal, whatever epsilon is.
C21_ActGreedyFirstMax ==
    act_call # NoAct
        => /\ act_call.action \in 0..(ActionDim - 1)
           /\ (~act_call.explore \/ epsilon[act_call.agent] = 0)
                => /\ \A k \in 1..ActionDim :
                          ActionValues[k] <= ActionValues[act_call.action + 1]
                   /\ \A k \in 1..act_call.action :
                          ActionValues[k] < ActionValues[act_call.action + 1]

\* A greedy call with epsilon 1.0 on action values whose maximum is reached
\* at more than one index.
C21_Witness ==
    /\ act_call # NoAct
    /\ ~act_call.explore
    /\ epsilon[act_call.agent] = Scale
    /\ \E k \in 1..ActionDim :
          /\ k > act_call.action + 1
          /\ ActionValues[k] = ActionValues[act_call.action + 1]

(* --- the receive loop --- *)

Arrived(t) ==
    \E i \in 1..Len(sub_queue) :
        sub_queue[i].timestamp = t /\ WellFormed(sub_queue[i])

\* C22: the receive loop is always at one of its positions, it does not hold
\* the mailbox lock when it polls (so also after a timeout or a malformed
\* message), and every well-formed message that arrived is stored, whatever
\* failed before it.
C22_StaysListening ==
    /\ [](rx_pc \in {"poll", "recvd", "locked"})
    /\ [](rx_pc = "poll" => lock # RxThread)
    /\ \A t \in 1..MaxMsgs : [](Arrived(t) => <>(t \in stored))

\* A message without 'sender' raised, a poll timed out, and a later message
\* was stored.
C22_Witness ==
    \E i, j, k \in 1..Len(rx_log) :
        /\ i < k /\ j < k
        /\ rx_log[i].outcome = "error"
        /\ rx_log[j].outcome = "timeout"
        /\ rx_log[k].outcome = "stored"
        /\ rx_log[k].ts \in stored
        /\ rx_pc = "poll"
        /\ lock = Free

(* --- the neighbor block of an enhanced observation --- *)

HasQueue(m) == "data" \in DOMAIN m /\ "queue" \in DOMAIN m.data

FieldOrZero(data, field) == IF field \in DOMAIN data THEN data[field] ELSE 0

RECURSIVE NeighborBlocks(_)
NeighborBlocks(messages) ==
    IF messages = << >> THEN << >>
    ELSE (IF HasQueue(Head(messages))
          THEN Head(messages).data.queue
                 \o << FieldOrZero(Head(messages).data, "current_phase"),
                       FieldOrZero(Head(messages).data, "intended_action") >>
          ELSE << >>)
         \o NeighborBlocks(Tail(messages))

\* C24: the 10 values after the base observation are the blocks of the
\* drained messages that carry a queue (queue, phase or 0, intended action or
\* 0), in mailbox order, cut to 10 values or filled up with zeros.
C24_NeighborBlockLayout ==
    \A c \in Callers : c_result[c].kind = "enhanced" =>
        LET r == c_result[c]
            blocks == NeighborBlocks(r.messages)
        IN  /\ SubSeq(r.enhanced, 1, Len(r.base)) = r.base
            /\ \A i \in 1..NeighborFeatureDim :
                  r.enhanced[Len(r.base) + i] =
                      IF i <= Len(blocks) THEN blocks[i] ELSE 0

\* One drained message with a 4-value queue, a phase and a different intended
\* action: the block is [q0, q1, q2, q3, phase, intended_action, 0, 0, 0, 0].
C24_Witness ==
    \E c \in Callers :
        LET r == c_result[c]
        IN  /\ r.kind = "enhanced"
            /\ Len(r.base) = BaseStateDim
            /\ Len(r.messages) = 1
            /\ HasQueue(r.messages[1])
            /\ r.messages[1].data.current_phase # r.messages[1].data.intended_action
            /\ SubSeq(r.enhanced, BaseStateDim + 1, BaseStateDim + NeighborFeatureDim)
                 = r.messages[1].data.queue
                     \o << r.messages[1].data.current_phase,
                           r.messages[1].data.intended_action, 0, 0, 0, 0 >>

(* --- the shared training-step counter --- *)

\* C25 (as claimed): a train_step call below batch_size leaves the counter as
\* it was, any other call raises it by exactly one, and when the new value is
\* a multiple of target_update_freq every agent's target equals its online
\* network at the end of that call.
C25_SharedTrainingStep ==
    [][calls' = calls + 1 =>
          IF BufferLen(buffer) < batch_size
          THEN training_step' = training_step
          ELSE /\ training_step' = training_step + 1
               /\ training_step' % target_update_freq = 0
                    => \A a \in Agents : target_params'[a] = q_params'[a]]_vars

(* --- the announce phase of act_with_coordination --- *)

\* The messages of the current call that are on their way or in a mailbox.
Announced(a) ==
    { m \in UNION { {in_flight[b][k] : k \in 1..Len(in_flight[b])} \cup
                    {mailbox[b][k] : k \in 1..Len(mailbox[b])} : b \in Agents } :
        m.sender = AgentIds[a] /\ m.timestamp = cycle }

GreedyOnPadded(a) == ArgMax(QNetwork(q_params[a], SumSeq(co_states[a] \o TenZeros)))

AnnounceStep == co_pc = "announce" /\ co_log' # co_log

\* C26: every intended_action published in a call is the greedy action of the
\* agent's base observation followed by ten zeros, whatever training_mode and
\* epsilon are; a step of the announce phase leaves every mailbox, every
\* epsilon and previous_actions as they were; previous_actions changes only
\* in the second phase, to the action selected there.
C26_AnnouncePhase ==
    /\ [](\A a \in Agents : \A m \in Announced(a) :
             m.data.intended_action = GreedyOnPadded(a))
    /\ [][AnnounceStep => UNCHANGED <<mailbox, epsilon, previous_actions>>]_vars
    /\ [][previous_actions' # previous_actions
            => /\ co_pc = "select"
               /\ \A a \in Agents :
                     previous_actions'[a] # previous_actions[a]
                        => a = co_i /\ previous_actions'[a] = co_actions'[a]]_vars

\* A call in training mode with epsilon 1.0 has returned; agent 1's announced
\* intent is still on its way and differs from the action selected for it.
C26_Witness ==
    /\ co_pc = "returned"
    /\ co_mode
    /\ epsilon[1] = Scale
    /\ \E m \in Announced(1) : m.data.intended_action # co_actions[1]
    /\ previous_actions = co_actions

(* --- communication disabled --- *)

\* C27 (as claimed): on a system built with enable_communication = false no
\* call of act or act_with_coordination publishes a message or drains a
\* mailbox: the log of a call holds action selections only, and nothing is
\* ever on its way to, or stored in, any agent's mailbox.
C27_DisabledLeavesChannelsUntouched ==
    ~communication_enabled
        => /\ \A k \in 1..Len(co_log) : co_log[k].ev = "action"
           /\ \A a \in Agents : in_flight[a] = << >> /\ mailbox[a] = << >>

(* --- shutdown of an execution run --- *)

\* C23 (as claimed): when MARLExecutor.run has returned, the simulator handle
\* is released and every agent's channel sockets are closed, and a receiver
\* thread stores a message only while its channel is open.
C23_ShutdownClosesChannels ==
    /\ [](ex_pc = "returned"
            => /\ ~env_open
               /\ \A a \in Agents : ~chan_open[a])
    /\ [][\A a \in Agents : ex_stored'[a] # ex_stored[a] => chan_open[a]]_vars

(* --- TrafficActions.execute_action --- *)

\* C28: a switch action for another direction returns and commands the
\* current direction's yellow phase from a green phase and the target
\* direction's green phase from a yellow phase; a switch action for the
\* current direction and the extend action return the current phase and
\* command none; no call commands another direction's green phase from a
\* green phase.
C28_NoDirectGreenToGreen ==
    ta_call # NoActionCall
        => LET action == ta_call.action
               phase == ta_call.current_phase
               r == ta_call.result
               direction == phase \div 2
               green == phase % 2 = 0
               switch == action < DirectionCount /\ action # direction
           IN  /\ switch /\ green
                    => r.returned = 2 * direction + 1 /\ r.set_phase = r.returned
               /\ switch /\ ~green
                    => r.returned = 2 * action /\ r.set_phase = r.returned
               /\ ~switch
                    => r.returned = phase /\ r.set_phase = NoPhase
               /\ ~(green /\ r.set_phase # NoPhase /\ r.set_phase % 2 = 0
                      /\ r.set_phase # phase)

\* The light is at west green (0) and the action asks for east green: the
\* call commands west yellow (1), and the light is there.
C28_Witness ==
    /\ ta_call.action = 2
    /\ ta_call.current_phase = 0
    /\ ta_call.result.returned = 1
    /\ tl_phase = 1

(* --- FixedTimeController --- *)

\* C29 (as claimed): once started, the phase the controller tracks for a
\* light is the phase it last commanded, cycle_position is that phase div 2,
\* and a commanded phase is followed by itself or by its successor in
\* 0 -> 1 -> ... -> 7 -> 0.
C29_TrackedPhaseIsCommanded ==
    /\ [](ft_running
            => \A tl \in TlIds :
                  /\ ft_current_phase[tl] = ft_commanded[tl]
                  /\ ft_cycle_position[tl] = ft_current_phase[tl] \div 2)
    /\ [][ft_running
            => \A tl \in TlIds :
                  ft_commanded'[tl] \in {ft_commanded[tl],
                                         (ft_commanded[tl] + 1) % PhaseCount}]_vars

(* --- run_single_episode(max_steps) --- *)

\* C30 (as claimed): run_single_episode(max_steps = N) never makes more than
\* N decision cycles.
C30_EpisodeEndsAfterMaxSteps ==
    ex_pc # "idle" => exec_iters <= ex_max_steps


============================================================================
